---- MODULE Spec2Model ----
(***************************************************************************)
(* The stream supervisor of gemini-antiblock-go                            *)
(* (streaming/retry.go, ProcessStreamAndRetryInternally) as a state        *)
(* machine.  One session is one call of the function: it reads SSE lines   *)
(* from the current upstream reader, classifies and forwards them to the   *)
(* client sink, and on interruption issues continuation requests.          *)
(*                                                                         *)
(* Text is a sequence of one-character strings.  An SSE line is a record   *)
(* of what its payload decodes to (streaming/sse.go is not part of the     *)
(* sources at hand; the codec operators follow section 4.1 of the          *)
(* specification).                                                         *)
(***************************************************************************)
EXTENDS Integers, Sequences, FiniteSets, Bags, TLC

(***************************************************************************)
(* Bounds of the model.                                                    *)
(***************************************************************************)
\* largest cfg.MaxConsecutiveRetries explored: every value up to it with Lines,
\* this value with MarkerLines and ThoughtLines
MaxRetries == 2
\* most SSE lines one session reads over all its attempts when its upstream
\* sends Lines
MaxTotalLines == 2
\* most SSE lines one session reads when its upstream sends PunctLines,
\* MarkerLines or ThoughtLines
MaxScenarioLines == 3
\* largest cfg.MaxConsecutiveRetries explored with PunctLines: the punctuation
\* heuristic needs PunctStreakThreshold resumed attempts
MaxPunctRetries == 3
\* most continuation requests of one session that fail softly
MaxSoftFailures == 1
\* the client-supplied generationConfig.maxOutputTokens explored (besides absent)
SmallOutputCap == 2
\* longest contents array of a request
MaxContents == 3
\* longest contents of a request whose rewrite is followed in memory
MaxRewriteContents == 6
\* most calls of BuildRetryRequestBody on one request
MaxRewrites == 2
\* longest parts array of a system instruction in a request
MaxParts == 2
\* concurrent callers of RateLimiter.Wait
MaxCallers == 2
\* largest limit and window of the rate limiter, and the last tick of the clock
MaxLimit == 2
MaxWindow == 2
MaxTime == 3

(***************************************************************************)
(* Program constants.                                                      *)
(***************************************************************************)
DefaultMaxOutputChars == 65535
PunctStreakThreshold == 3
StatusOK == 200
DeadlineExceededCode == 504
InvalidArgumentCode == 400
TokenLimitExceededCode == 413
BadGatewayCode == 502

\* a status set that lets the rate-limit status fall through to the soft path
nonRetryableStatuses_Without429 == {400, 401, 403, 404}
\* retry.go 17-19: the statuses that end the session at once
nonRetryableStatuses == {400, 401, 403, 404, 429}

DoneToken == <<"[", "d", "o", "n", "e", "]">>

\* the characters strings.TrimSpace removes, those of unicode.IsSpace: tab,
\* line feed, vertical tab, form feed, carriage return, space, U+0085,
\* U+00A0 and the white space of category Z.  A character outside ASCII, or
\* one TLA+ has no notation for, is written by the name of its code point
WhiteSpace ==
    {"\t", "\n", "U+000B", "\f", "\r", " ", "U+0085", "U+00A0", "U+1680",
     "U+2000", "U+2001", "U+2002", "U+2003", "U+2004", "U+2005", "U+2006",
     "U+2007", "U+2008", "U+2009", "U+200A", "U+2028", "U+2029", "U+202F",
     "U+205F", "U+3000"}

\* the runes of the constant `punctuations` of endsWithSentencePunctuation
punctuations ==
    {".", "!", "?", "U+2026", "'", "\"", "U+300B", ">", "U+3002", "U+FF1F",
     "U+FF01", "}", "]", ")", "("}

(***************************************************************************)
(* Strings (Go package strings), on sequences of characters.               *)
(***************************************************************************)
\* the bytes of a character in UTF-8: 1 to U+007F, 2 from U+0080, 3 from
\* U+0800.  The characters of the model are those of ASCII, of WhiteSpace
\* and of punctuations
RuneLen(c) ==
    IF c \in {"U+0085", "U+00A0"} THEN 2
    ELSE IF c \in {"U+1680", "U+2000", "U+2001", "U+2002", "U+2003", "U+2004",
                   "U+2005", "U+2006", "U+2007", "U+2008", "U+2009", "U+200A",
                   "U+2028", "U+2029", "U+202F", "U+205F", "U+3000",
                   "U+2026", "U+300B", "U+3002", "U+FF1F", "U+FF01"}
    THEN 3
    ELSE 1

\* len(s) of a Go string: its length in bytes
RECURSIVE ByteLen(_)
ByteLen(s) == IF s = <<>> THEN 0 ELSE RuneLen(Head(s)) + ByteLen(Tail(s))

RECURSIVE TrimLeft(_)
TrimLeft(s) ==
    IF s # <<>> /\ Head(s) \in WhiteSpace THEN TrimLeft(Tail(s)) ELSE s

RECURSIVE TrimRight(_)
TrimRight(s) ==
    IF s # <<>> /\ s[Len(s)] \in WhiteSpace
    THEN TrimRight(SubSeq(s, 1, Len(s) - 1))
    ELSE s

TrimSpace(s) == TrimRight(TrimLeft(s))

HasPrefix(s, p) == Len(s) >= Len(p) /\ SubSeq(s, 1, Len(p)) = p

HasSuffix(s, suf) ==
    Len(s) >= Len(suf) /\ SubSeq(s, Len(s) - Len(suf) + 1, Len(s)) = suf

Contains(s, sub) ==
    \E i \in 1..(Len(s) - Len(sub) + 1) : SubSeq(s, i, i + Len(sub) - 1) = sub

\* strings.ReplaceAll(s, old, ""): leftmost non-overlapping occurrences
RECURSIVE RemoveAll(_, _)
RemoveAll(s, old) ==
    IF s = <<>> THEN <<>>
    ELSE IF HasPrefix(s, old) THEN RemoveAll(SubSeq(s, Len(old) + 1, Len(s)), old)
    ELSE <<Head(s)>> \o RemoveAll(Tail(s), old)

endsWithSentencePunctuation(text) ==
    LET trimmed == TrimSpace(text) IN
    IF Len(trimmed) = 0 THEN FALSE
    ELSE IF HasSuffix(text, <<"\n">>) THEN TRUE
    ELSE trimmed[Len(trimmed)] \in punctuations

(***************************************************************************)
(* SSE lines and the frame codec.                                          *)
(***************************************************************************)
\* a "data: " line whose payload has a well-formed candidates array
DataLine(text, thought, finish) ==
    [data |-> TRUE, cands |-> TRUE, text |-> text, thought |-> thought,
     finish |-> finish, block |-> FALSE]

\* the empty line
BlankLine ==
    [data |-> FALSE, cands |-> FALSE, text |-> <<>>, thought |-> FALSE,
     finish |-> "", block |-> FALSE]

IsDataLine(l) == l.data

ParseLineContent(l) ==
    IF l.data /\ l.cands
    THEN [Text |-> l.text, IsThought |-> l.thought]
    ELSE [Text |-> <<>>, IsThought |-> FALSE]

ExtractFinishReason(l) == IF l.data /\ l.cands THEN l.finish ELSE ""

IsBlockedLine(l) == l.data /\ l.block

RemoveDoneTokenFromLine(l, atEnd) ==
    IF atEnd /\ l.data /\ l.cands
    THEN [l EXCEPT !.text = RemoveAll(@, DoneToken)]
    ELSE l

InvalidLine ==
    [data |-> TRUE, cands |-> FALSE, text |-> <<>>, thought |-> FALSE,
     finish |-> "", block |-> FALSE]

BlockedLine ==
    [data |-> TRUE, cands |-> FALSE, text |-> <<>>, thought |-> FALSE,
     finish |-> "", block |-> TRUE]

\* The lines an upstream response may carry: one of each kind the supervisor
\* tells apart
Lines ==
    { InvalidLine,
      BlockedLine,
      DataLine(<<"t">>, TRUE, ""),
      DataLine(<<"t">>, TRUE, "STOP"),
      DataLine(<<"a">>, FALSE, ""),
      DataLine(<<"b", ".">>, FALSE, ""),
      DataLine(<<"!">> \o DoneToken, FALSE, "STOP"),
      DataLine(<<"e", ".">>, FALSE, "STOP"),
      DataLine(<<>>, FALSE, "STOP"),
      DataLine(<<"m">>, FALSE, "MAX_TOKENS"),
      DataLine(<<"o">>, FALSE, "OTHER") }

\* an upstream that answers with plain and punctuation-ending text
PunctLines ==
    { DataLine(<<"a">>, FALSE, ""),
      DataLine(<<"b", ".">>, FALSE, ""),
      DataLine(<<"e", ".">>, FALSE, "STOP") }

\* an upstream whose text has a character of three bytes, U+3002, the
\* ideographic full stop
CapLines ==
    { DataLine(<<"a">>, FALSE, ""),
      DataLine(<<"U+3002">>, FALSE, ""),
      DataLine(<<"e", ".">>, FALSE, "STOP") }

\* an upstream whose text carries the completion marker: whole, split over two
\* frames (mock-server handleTestCase2), or in a frame without finish reason
MarkerLines ==
    { DataLine(<<"a">>, FALSE, ""),
      DataLine(<<"[", "d", "o">>, FALSE, ""),
      DataLine(<<"n", "e", "]">>, FALSE, "STOP"),
      DataLine(<<"c">> \o DoneToken, FALSE, ""),
      DataLine(<<"!">> \o DoneToken \o <<"\n">>, FALSE, "STOP"),
      DataLine(<<>>, FALSE, "STOP") }

\* an upstream that sends thought frames and frames without text
ThoughtLines ==
    { BlankLine,
      DataLine(<<>>, FALSE, ""),
      DataLine(<<"t">>, TRUE, ""),
      DataLine(<<"a">>, FALSE, "") }

\* an upstream that finishes without text: the empty STOP frame of mock-server
\* handleTestCase3, white space as formal text, and STOP frames without text
\* that are thought frames or carry a block reason
EmptyLines ==
    { DataLine(<<>>, FALSE, "STOP"),
      DataLine(<<" ">>, FALSE, ""),
      DataLine(<<" ">>, FALSE, "STOP"),
      DataLine(<<" ">>, TRUE, "STOP"),
      [DataLine(<<>>, FALSE, "STOP") EXCEPT !.block = TRUE] }

\* an upstream whose frames meet several tests of the decision list at once:
\* a block reason next to candidates that finish (with the marker, in a
\* thought, abnormally), a thought that finishes abnormally, and a block
\* reason without candidates; one formal frame comes before them
PriorityLines ==
    { DataLine(<<"a">>, FALSE, ""),
      [DataLine(<<"!">> \o DoneToken, FALSE, "STOP") EXCEPT !.block = TRUE],
      [DataLine(<<"t">>, TRUE, "STOP") EXCEPT !.block = TRUE],
      [DataLine(<<"o">>, FALSE, "OTHER") EXCEPT !.block = TRUE],
      DataLine(<<"t">>, TRUE, "OTHER"),
      BlockedLine }

\* an upstream whose attempts end on punctuation or not
StreakLines ==
    { DataLine(<<"a">>, FALSE, ""),
      DataLine(<<"b", ".">>, FALSE, "") }

\* an upstream that is cut off, blocked, or ends its response with the marker
StatusLines ==
    { DataLine(<<"a">>, FALSE, ""),
      DataLine(<<"!">> \o DoneToken, FALSE, "STOP"),
      BlockedLine }

\* every line of the model
AllLines == Lines \cup PunctLines \cup MarkerLines \cup ThoughtLines \cup EmptyLines
                \cup PriorityLines \cup StreakLines \cup StatusLines \cup CapLines

\* statuses a continuation response may carry; 0 stands for a network error
NetworkError == 0
\* no continuation request has been answered or has failed
NoStatus == -1
\* the request's model has no entry in Config.GeminiModelMaxTokens
NoTokenCap == -1
Statuses == {StatusOK, 400, 401, 403, 404, 429, 500, 503}
\* an upstream that answers 200, a hard failure or a soft failure
OneStatusOfEachKind == {StatusOK, 429, 503}


\* retry.go 44-88: a line that is not a data line, or a data line whose payload
\* decodes to a mapping with a non-empty candidates array of a mapping; the
\* supervisor does not call it
isValidResponseStructure(l) == ~IsDataLine(l) \/ l.cands

(***************************************************************************)
(* State of one session.                                                   *)
(***************************************************************************)
VARIABLES
    upstreamLines,                \* the lines the upstream of this session sends
    upstreamStatuses,             \* the answers it gives to a request
    requestBytes,                 \* what the client posted: "unreadable", "invalid"
                                  \* (not a JSON object) or "valid"
    tokenCap,                     \* Config.GeminiModelMaxTokens of the request's
                                  \* model, NoTokenCap without one
    lineBudget,                   \* the number of lines the session may read
    cfg,                          \* config.Config fields the supervisor reads
    maxOutputTokens,              \* generationConfig.maxOutputTokens of the request
    maxOutputChars,               \* character cap derived from the request
    originalRequestBody,          \* the decoded request: a map from field names
    retryBody,                    \* what the last call of BuildRetryRequestBody returned
    upstreamURL,                  \* "wellformed" or "malformed"
    jsonError,                    \* HTTP status of the JSON error response, 0: none
    sseStarted,                   \* status 200 and the SSE headers have been written
    bodyClosed,                   \* the initial response body has been closed
    openBodies,                   \* the response bodies received and not closed:
                                  \* 0 the initial one, k that of the k-th request
    accumulatedText,
    consecutiveRetryCount,
    currentReader,                \* 0: initial body, k: body of the k-th request
    totalLinesProcessed,
    isOutputtingFormalText,
    swallowModeActive,
    resumePunctStreak,
    interruptionReason,
    cleanExit,
    line,                         \* the line the attempt loop read last
    attemptLastFormalText,
    attemptLastFormalDataLine,
    attemptLastFormalTextFlushed,
    attemptLastFormalLineId,      \* totalLinesProcessed when that line was read
    pc,                           \* "reading", "epilogue", "retry", "done"
    result,                       \* "" while running, then "nil" or the error
    sink,                         \* what the client has received, in order
    writeFailed,                  \* a write to the client sink returned an error
    errorEventWrites,             \* writes of an "event: error" frame made so far
    readerAtEOF,                  \* the current reader has reported end of stream
    upstreamRequests,             \* initial request plus continuation requests
    initialStatus,                \* what the initial request met: a status,
                                  \* NetworkError, or NoStatus while it is not made
    lastStatus,                   \* what the last continuation request met: a
                                  \* status, NetworkError, or NoStatus before any
    softFailures,                 \* continuation requests that failed softly
    interruptedAttempts,          \* attempts that ended with an interruption reason
    punctEndedResumes,            \* resumed attempts in a row that ended without clean
                                  \* exit on formal text with sentence punctuation
    punctEndedTotal,              \* all resumed attempts that ended so
    attemptsStarted,              \* iterations of the attempt loop begun
    interruptingLines,            \* totalLinesProcessed ids of interrupting lines
    requestBody,                  \* the body InjectSystemPrompt works on
    receivedBody,                 \* that body as the handler decoded it
    promptInjected,               \* InjectSystemPrompt has returned
    limit,                        \* RateLimiter.limit
    window,                       \* RateLimiter.window, in ticks
    now,                          \* the clock
    clients,                      \* RateLimiter.clients: key -> timestamps
    mutex,                        \* RateLimiter.mutex: "unlocked" or "locked"
    callers,                      \* the goroutines inside Wait, a bag
    admitted,                     \* key, time -> returns of Wait recorded at time,
                                  \* for the times no more than a window ago
    calls,                        \* caller -> where its call of Wait stands, for
                                  \* the limiter with callers told apart
    recalls,                      \* a caller whose call has returned calls again
    bodyLines,                    \* response body -> lines it has still to deliver
    producers,                    \* the SSELineIterator goroutines started, in order
    supervisor,                   \* where the attempt loop stands: "head",
                                  \* "ranging", "gate", "returned", "closed"
    readerInUse,                  \* the body currentReader refers to
    bodiesOpened,                 \* response bodies received so far
    producerRetries,              \* cfg.MaxConsecutiveRetries of this supervisor
    heap,                         \* the maps and the arrays of slices in memory
    rewrites                      \* the calls of BuildRetryRequestBody made on
                                  \* the request in memory, with what each returned

sessionVars ==
    <<upstreamLines, upstreamStatuses, requestBytes, tokenCap, lineBudget, cfg,
      maxOutputTokens, maxOutputChars,
      originalRequestBody, retryBody,
      upstreamURL, jsonError, sseStarted, bodyClosed, openBodies, accumulatedText,
      consecutiveRetryCount, currentReader, totalLinesProcessed,
      isOutputtingFormalText, swallowModeActive, resumePunctStreak,
      interruptionReason, cleanExit, line, attemptLastFormalText,
      attemptLastFormalDataLine, attemptLastFormalTextFlushed,
      attemptLastFormalLineId, pc, result, sink, writeFailed, errorEventWrites,
      readerAtEOF,
      upstreamRequests, initialStatus, lastStatus, softFailures,
      interruptedAttempts,
      punctEndedResumes, punctEndedTotal, attemptsStarted,
      interruptingLines>>

injectVars == <<requestBody, receivedBody, promptInjected>>

limiterVars == <<limit, window, now, clients, mutex, callers, admitted, calls, recalls>>

producerVars ==
    <<bodyLines, producers, supervisor, readerInUse, bodiesOpened, producerRetries>>

rewriteVars == <<heap, rewrites>>

\* what a step of the session leaves alone
outsideSession == <<injectVars, limiterVars, producerVars, rewriteVars>>

vars == <<sessionVars, outsideSession>>

configVars ==
    <<upstreamLines, upstreamStatuses, requestBytes, tokenCap, lineBudget, cfg,
      maxOutputTokens, maxOutputChars,
      upstreamURL>>

handlerVars == <<jsonError, sseStarted, bodyClosed, openBodies>>

attemptLastFormalVars ==
    <<attemptLastFormalText, attemptLastFormalDataLine,
      attemptLastFormalTextFlushed, attemptLastFormalLineId>>

\* A JSON number: the greatest integer not above it, and whether a fraction
\* follows it: 2.5 is Number(2, TRUE), -1.5 is Number(-2, TRUE)
Number(whole, frac) == [whole |-> whole, frac |-> frac]

\* the request carries no maxOutputTokens (or the number 0)
NoMaxOutputTokens == Number(0, FALSE)

\* lines 203-209: the cap is int(maxOutputTokens), which drops the fraction,
\* when maxOutputTokens > 0 (line 205), else the default
MaxOutputCharsOf(tokens) ==
    IF tokens.whole > 0 \/ (tokens.whole = 0 /\ tokens.frac)
    THEN tokens.whole
    ELSE DefaultMaxOutputChars

\* an SSE data frame written to the sink: the line read as number id, as written
FrameEntry(id, l, written) ==
    [kind |-> "frame", id |-> id,
     attempt |-> consecutiveRetryCount, reader |-> currentReader,
     line |-> l, written |-> written,
     code |-> 0, status |-> "", reason |-> ""]

\* an "event: error" frame written to the sink
ErrorEntry(retryCount, code, status, reason) ==
    [kind |-> "error", id |-> 0,
     attempt |-> retryCount, reader |-> currentReader,
     line |-> BlankLine, written |-> BlankLine,
     code |-> code, status |-> status, reason |-> reason]

(***************************************************************************)
(* The request body and its rewrite, BuildRetryRequestBody, retry.go       *)
(* 91-187.  A body is a map from field names; an entry of contents is a    *)
(* map with "parts" and, unless it has no role string, "role".  Indexes    *)
(* are 1-based here: index i of the code is i + 1, and -1 is 0.            *)
(***************************************************************************)
Roles == {"user", "model", "none"}

\* the i-th entry of a conversation; role "none" stands for an entry that has
\* no role string
Entry(role, i) ==
    IF role = "none" THEN [parts |-> <<ToString(i)>>]
    ELSE [role |-> role, parts |-> <<ToString(i)>>]

\* the conversations explored: every sequence of roles of 1..MaxContents entries
Conversations == UNION {[1..n -> Roles] : n \in 1..MaxContents}

RequestBody(roles, tokens) ==
    [contents |-> [i \in 1..Len(roles) |-> Entry(roles[i], i)],
     generationConfig |-> tokens]

BodyWithoutContents(tokens) == [generationConfig |-> tokens]

\* lines 119-120
IsUserEntry(content) == "role" \in DOMAIN content /\ content.role = "user"

\* the first entry with role "user" in place of the last
lastUserIndex_First(contents) ==
    IF \E i \in 1..Len(contents) : IsUserEntry(contents[i])
    THEN CHOOSE i \in 1..Len(contents) :
             /\ IsUserEntry(contents[i])
             /\ \A k \in 1..(i - 1) : ~IsUserEntry(contents[k])
    ELSE 0

\* lines 117-125: the scan from the end, from index i down
RECURSIVE ScanForUser(_, _)
ScanForUser(contents, i) ==
    IF i = 0 THEN 0
    ELSE IF IsUserEntry(contents[i]) THEN i
    ELSE ScanForUser(contents, i - 1)

\* lines 116-125
lastUserIndex(contents) == ScanForUser(contents, Len(contents))

\* lines 128-141
ContinuePrompt ==
    <<"Continue exactly where you left off without any preamble or repetition.">>

ModelTurn(text) == [role |-> "model", parts |-> text]
ContinuationTurn == [role |-> "user", parts |-> ContinuePrompt]

\* lines 100-187, on the values: the error, or "" and the rewritten body as
\* json.Marshal (line 474) reads it.  What the call does to the maps and
\* arrays in memory is BuildRetryRequestBodyInMemory
BuildRetryRequestBody(originalBody, text) ==
    IF "contents" \notin DOMAIN originalBody
    THEN [err |-> "invalid contents field in retry request"]
    ELSE IF Len(originalBody.contents) = 0
    THEN [err |-> "retry request cannot have empty contents"]
    ELSE LET contents == originalBody.contents
             history == <<ModelTurn(text), ContinuationTurn>>
             newContents ==
                 IF lastUserIndex(contents) # 0
                 THEN SubSeq(contents, 1, lastUserIndex(contents))
                      \o history
                      \o SubSeq(contents, lastUserIndex(contents) + 1, Len(contents))
                 ELSE contents \o history
         IN [err |-> "", body |-> [originalBody EXCEPT !.contents = newContents]]

\* a supervisor that rewrites the body of its previous continuation
RewriteSource_Previous(original, previous) ==
    IF "body" \in DOMAIN previous THEN previous.body ELSE original

\* line 445: the body handed to BuildRetryRequestBody
RewriteSource(original, previous) == original

\* no call of BuildRetryRequestBody yet
NotBuilt == [err |-> "not called"]

\* formal text, then a blocked line: an interruption with text to continue from
RewriteLines == {DataLine(<<"a">>, FALSE, ""), BlockedLine}

(***************************************************************************)
(* InjectSystemPrompt, proxy.go 56-116.  A decoded JSON value is a record  *)
(* with its type in t: null, a string, an array with its items, or a map   *)
(* with its fields (a function from keys to values).  The request body is  *)
(* a function from keys to values.                                         *)
(***************************************************************************)
JNull == [t |-> "null"]
JString(s) == [t |-> "string", v |-> s]
JArray(items) == [t |-> "array", items |-> items]
JMap(fields) == [t |-> "map", fields |-> fields]

IsJMap(v) == v.t = "map"
IsJArray(v) == v.t = "array"

\* m[k] = v, and delete(m, k)
SetKey(m, k, v) == [x \in DOMAIN m \cup {k} |-> IF x = k THEN v ELSE m[x]]
DeleteKey(m, k) == [x \in DOMAIN m \ {k} |-> m[x]]

\* lines 57-59
DonePromptText ==
    "IMPORTANT: At the very end of your entire response, you must write the token [done] to signal completion. This is a mandatory technical requirement."
newSystemPromptPart == JMap([text |-> JString(DonePromptText)])

\* the i-th part of the instruction under key
InstructionPart(key, i) == JMap([text |-> JString(key), index |-> JString(ToString(i))])

\* what a request may hold under an instruction key: null, a value of the wrong
\* type, a map without parts, a map whose parts is null or of the wrong type, a
\* map whose parts is an array of 0..MaxParts parts
InstructionValues(key) ==
    {JNull, JString("text"),
     JMap([role |-> JString("system")]),
     JMap([role |-> JString("system"), parts |-> JNull]),
     JMap([role |-> JString("system"), parts |-> JString("text")])}
    \cup {JMap([role |-> JString("system"),
                parts |-> JArray([i \in 1..n |-> InstructionPart(key, i)])]) :
             n \in 0..MaxParts}

\* the requests explored: each instruction key absent or holding one of the values
InjectableBodies ==
    LET base == [contents |-> JArray(<<>>)] IN
    {base}
    \cup {SetKey(base, "system_instruction", s) :
             s \in InstructionValues("system_instruction")}
    \cup {SetKey(base, "systemInstruction", c) :
             c \in InstructionValues("systemInstruction")}
    \cup {SetKey(SetKey(base, "system_instruction", s), "systemInstruction", c) :
             s \in InstructionValues("system_instruction"),
             c \in InstructionValues("systemInstruction")}

\* the type assertion v.(map[string]interface{}) on m[k]: the fields, or none
\* when the key is missing or the value is not a map (lines 64, 75, 98)
HasMapAt(m, k) == k \in DOMAIN m /\ IsJMap(m[k])
\* the type assertion v.([]interface{}) on m[k] (lines 70, 76, 108)
HasArrayAt(m, k) == k \in DOMAIN m /\ IsJArray(m[k])

\* lines 62-86: system_instruction is merged into systemInstruction and deleted
MergeSnakeCase(body) ==
    IF "system_instruction" \notin DOMAIN body THEN body
    ELSE LET camelMap == IF HasMapAt(body, "systemInstruction")
                         THEN body["systemInstruction"].fields
                         ELSE [x \in {} |-> JNull]
             camelParts == IF HasArrayAt(camelMap, "parts")
                           THEN camelMap["parts"].items ELSE <<>>
             snakeVal == body["system_instruction"]
             merged == IF IsJMap(snakeVal) /\ HasArrayAt(snakeVal.fields, "parts")
                       THEN snakeVal.fields["parts"].items \o camelParts
                       ELSE camelParts
         IN DeleteKey(SetKey(body, "systemInstruction",
                             JMap(SetKey(camelMap, "parts", JArray(merged)))),
                      "system_instruction")

\* an injection that puts its part first
AppendPart_First(parts, part) == <<part>> \o parts

\* line 115: append(parts, newSystemPromptPart)
AppendPart(parts, part) == Append(parts, part)

\* lines 88-115, on the merged body
InjectIntoCamelCase(body) ==
    IF "systemInstruction" \notin DOMAIN body \/ body["systemInstruction"] = JNull
       \/ ~IsJMap(body["systemInstruction"])
    THEN SetKey(body, "systemInstruction",
                JMap([parts |-> JArray(<<newSystemPromptPart>>)]))
    ELSE LET instruction == body["systemInstruction"].fields IN
         IF ~HasArrayAt(instruction, "parts")
         THEN SetKey(body, "systemInstruction",
                     JMap(SetKey(instruction, "parts",
                                 JArray(<<newSystemPromptPart>>))))
         ELSE SetKey(body, "systemInstruction",
                     JMap(SetKey(instruction, "parts",
                                 JArray(AppendPart(instruction["parts"].items,
                                                   newSystemPromptPart)))))

InjectSystemPrompt(body) == InjectIntoCamelCase(MergeSnakeCase(body))

\* requestBody, receivedBody and promptInjected serve the specification of
\* InjectSystemPrompt on its own; in a session the handler applies it to
\* originalRequestBody, and these three stay as they are here
NoRequest == [contents |-> JArray(<<>>)]

InjectIdle ==
    /\ requestBody = NoRequest
    /\ receivedBody = NoRequest
    /\ promptInjected = FALSE

(***************************************************************************)
(* BuildRetryRequestBody in memory, retry.go 100-155.  A Go map is an      *)
(* object: heap.maps[m] holds the keys and values of map m.  A slice is a  *)
(* header with its backing array, length and capacity, and heap.arrays[a]  *)
(* holds the slots of array a, as many as its capacity.  The value of      *)
(* "contents" in a map is a slice header.  The entries of contents and the *)
(* other values of a body are maps the rewrite only reads; they are kept   *)
(* as values.  Map 1 is the request body HandleStreamingPost decoded and   *)
(* passed on; array 1 is the array json.Unmarshal made for its contents.   *)
(***************************************************************************)
\* A slot of an array behind the length of every slice on it holds
\* [unused |-> TRUE].

\* runtime growslice as the gc toolchain builds it, for capacities below 256:
\* the capacity of the array allocated when newLen elements do not fit into
\* an array of oldCap: newLen when that is more than the double of oldCap,
\* else the double, rounded up to a size class of the allocator.  An element
\* (interface{}) takes 16 bytes; the size classes up to 1024 bytes hold 1..16,
\* 18, 20, .. 32, 36, 40, 44, 48, 56 and 64 of them
GrowCap(oldCap, newLen) ==
    LET wanted == IF newLen > 2 * oldCap THEN newLen ELSE 2 * oldCap
        classes == (1..16) \cup {2 * k : k \in 9..16} \cup {36, 40, 44, 48, 56, 64}
    IN IF wanted \in classes \/ wanted > 64 THEN wanted
       ELSE CHOOSE c \in classes :
                /\ c > wanted
                /\ \A d \in classes : d > wanted => c <= d

\* the capacity of the array json.Unmarshal leaves behind an array of n
\* entries: the decoder starts from an empty slice and appends the entries
\* one by one
RECURSIVE DecodedCap(_)
DecodedCap(n) ==
    IF n = 0 THEN 0
    ELSE IF n <= DecodedCap(n - 1) THEN DecodedCap(n - 1)
    ELSE GrowCap(DecodedCap(n - 1), n)

\* the elements a slice shows: the first len slots of its backing array
SliceItems(arrays, s) == SubSeq(arrays[s.array], 1, s.len)

\* append(s, items...): within the capacity of s the items are written behind
\* its length into the backing array itself; beyond it a new array of the
\* capacity growslice chooses gets the elements of s and the items
AppendTo(arrays, s, items) ==
    IF s.len + Len(items) <= s.cap
    THEN LET slots == arrays[s.array]
         IN [arrays |-> [arrays EXCEPT ![s.array] =
                            [i \in 1..s.cap |->
                                IF i \in (s.len + 1)..(s.len + Len(items))
                                THEN items[i - s.len]
                                ELSE slots[i]]],
             slice |-> [array |-> s.array, len |-> s.len + Len(items),
                        cap |-> s.cap]]
    ELSE LET newLen == s.len + Len(items)
             newCap == GrowCap(s.cap, newLen)
         IN [arrays |-> Append(arrays,
                            SliceItems(arrays, s) \o items
                            \o [i \in 1..(newCap - newLen) |-> [unused |-> TRUE]]),
             slice |-> [array |-> Len(arrays) + 1, len |-> newLen,
                        cap |-> newCap]]

\* the original map itself in place of a copy of it
CopyOfMap_SameMap(maps, original) == [maps |-> maps, id |-> original]

\* lines 100-103: a new map that gets every key of the original with its value
CopyOfMap(maps, original) ==
    [maps |-> Append(maps, maps[original]), id |-> Len(maps) + 1]

\* the body json.Marshal reads from map m: contents is what its slice shows
ReadBody(h, m) ==
    IF "contents" \in DOMAIN h.maps[m]
    THEN [h.maps[m] EXCEPT !.contents = SliceItems(h.arrays, @)]
    ELSE h.maps[m]

\* lines 100-155 on heap h, called with map original and the accumulated text:
\* the heap after the call, the error, and the map returned (retryBody); with
\* an error the map returned is nil, here 0, and the copy of lines 100-103 is
\* left in memory with nothing referring to it
BuildRetryRequestBodyInMemory(h, original, text) ==
    LET copy == CopyOfMap(h.maps, original)
        retryBody_ == copy.id
        failed(err) == [heap |-> [maps |-> copy.maps, arrays |-> h.arrays],
                        err |-> err, map |-> 0]
    IN IF "contents" \notin DOMAIN copy.maps[retryBody_]
       THEN failed("invalid contents field in retry request")
       ELSE LET contents == copy.maps[retryBody_].contents
                user == lastUserIndex(SliceItems(h.arrays, contents))
                history == <<ModelTurn(text), ContinuationTurn>>
                \* lines 145-147: make([]interface{}, 0, len(contents)+2) and
                \* the three appends
                made == [arrays |-> Append(h.arrays,
                                       [i \in 1..(contents.len + 2) |-> [unused |-> TRUE]]),
                         slice |-> [array |-> Len(h.arrays) + 1, len |-> 0,
                                    cap |-> contents.len + 2]]
                head == AppendTo(made.arrays, made.slice,
                            SubSeq(SliceItems(made.arrays, contents), 1, user))
                middle == AppendTo(head.arrays, head.slice, history)
                spliced == AppendTo(middle.arrays, middle.slice,
                               SubSeq(SliceItems(middle.arrays, contents),
                                      user + 1, contents.len))
                \* line 151: append(contents, history...)
                appended == AppendTo(h.arrays, contents, history)
                built == IF user # 0 THEN spliced ELSE appended
            IN IF contents.len = 0
               THEN failed("retry request cannot have empty contents")
               ELSE [heap |-> [maps |-> [copy.maps EXCEPT
                                            ![retryBody_].contents = built.slice],
                               arrays |-> built.arrays],
                     err |-> "", map |-> retryBody_]

\* no request in memory
RewriteIdle ==
    /\ heap = [maps |-> <<>>, arrays |-> <<>>]
    /\ rewrites = <<>>

(***************************************************************************)
(* RateLimiter, src/unnamed/part_000 9-68.  Time is a count of ticks of    *)
(* the clock.  A caller is a goroutine of ServeHTTP (proxy.go 355-370) in  *)
(* Wait: at the Lock of line 29 ("lock"), in the Sleep of line 63          *)
(* ("sleeping", since at, until until) or stopped by a panic.  Callers     *)
(* with the same record are alike, so the callers are a bag of records.    *)
(***************************************************************************)
Keys == {"A", "B"}

\* a goroutine that has called Wait(k) and is at the Lock of line 29
AtLock(k) == [pc |-> "lock", key |-> k, at |-> 0, until |-> 0, holds |-> FALSE]

\* lines 32-46: the index of the first timestamp not before the cutoff, the
\* length when there is none; i counts from 0 as in the code
RECURSIVE firstValidIndex(_, _, _)
firstValidIndex(timestamps, cutoff, i) ==
    IF i >= Len(timestamps) THEN Len(timestamps)
    ELSE IF ~(timestamps[i + 1] < cutoff) THEN i
    ELSE firstValidIndex(timestamps, cutoff, i + 1)

\* line 46: timestamps[firstValidIndex:]
ValidTimestamps(timestamps, cutoff) ==
    SubSeq(timestamps, firstValidIndex(timestamps, cutoff, 0) + 1, Len(timestamps))

\* a limiter that admits one request too many
UnderLimit_Inclusive(count, max) == count <= max

\* line 49
UnderLimit(count, max) == count < max

\* a limiter that sleeps with the mutex locked
HoldsMutexInSleep_Held == TRUE

\* line 58: the mutex is unlocked before the sleep of line 63
HoldsMutexInSleep == FALSE

\* no caller, an unused limiter
LimiterIdle ==
    /\ limit = 1
    /\ window = 1
    /\ now = 0
    /\ clients = [k \in Keys |-> <<>>]
    /\ mutex = "unlocked"
    /\ callers = EmptyBag
    /\ admitted = [k \in Keys |-> [t \in 0..MaxTime |-> 0]]
    /\ calls = <<>>
    /\ recalls = FALSE

\* retry.go 223: the capacity of the line channel
ChannelCapacity == 100
\* the most continuations a supervisor of the producer model is given
MaxProducerRetries == 2
\* the most lines a short response body delivers
MaxBodyLines == 2
\* the initial body and one for every continuation
Bodies == 0..MaxProducerRetries

\* no supervisor, no line producer
ProducersIdle ==
    /\ bodyLines = [b \in Bodies |-> 0]
    /\ producers = <<>>
    /\ supervisor = "idle"
    /\ readerInUse = 0
    /\ bodiesOpened = 0
    /\ producerRetries = 0

\* a supervisor that writes its error event twice
WriteErrorEvent_Twice(written, event) == Append(Append(written, event), event)

\* lines 432, 458 and 522: the one write of the error event
WriteErrorEvent(written, event) == Append(written, event)

\* any upstream line, any configuration, the default cap, short sessions
InitAnyLine ==
    /\ upstreamLines = Lines
    /\ upstreamStatuses = OneStatusOfEachKind
    /\ lineBudget = MaxTotalLines
    /\ cfg \in [MaxConsecutiveRetries : 0..MaxRetries,
                SwallowThoughtsAfterRetry : BOOLEAN,
                EnablePunctuationHeuristic : BOOLEAN]
    /\ maxOutputTokens = NoMaxOutputTokens

\* a request with a small maxOutputTokens (2, 2.5, 0.5 or -1.5), over CapLines
InitCap ==
    /\ upstreamLines = CapLines
    /\ upstreamStatuses = OneStatusOfEachKind
    /\ lineBudget = MaxScenarioLines
    /\ cfg \in [MaxConsecutiveRetries : {MaxRetries},
                SwallowThoughtsAfterRetry : {TRUE},
                EnablePunctuationHeuristic : BOOLEAN]
    /\ maxOutputTokens \in {Number(SmallOutputCap, FALSE), Number(SmallOutputCap, TRUE),
                            Number(0, TRUE), Number(-SmallOutputCap, TRUE)}

\* the default configuration with enough retries for the punctuation heuristic,
\* longer sessions over PunctLines
InitPunct ==
    /\ upstreamLines = PunctLines
    /\ upstreamStatuses = OneStatusOfEachKind
    /\ lineBudget = MaxScenarioLines
    /\ cfg \in [MaxConsecutiveRetries : PunctStreakThreshold..MaxPunctRetries,
                SwallowThoughtsAfterRetry : {TRUE},
                EnablePunctuationHeuristic : {TRUE}]
    /\ maxOutputTokens = NoMaxOutputTokens

\* the completion marker in the upstream text
InitMarker ==
    /\ upstreamLines = MarkerLines
    /\ upstreamStatuses = OneStatusOfEachKind
    /\ lineBudget = MaxScenarioLines
    /\ cfg \in [MaxConsecutiveRetries : {MaxRetries},
                SwallowThoughtsAfterRetry : {TRUE},
                EnablePunctuationHeuristic : BOOLEAN]
    /\ maxOutputTokens = NoMaxOutputTokens

\* thought frames before and after a retry
InitThought ==
    /\ upstreamLines = ThoughtLines
    /\ upstreamStatuses = OneStatusOfEachKind
    /\ lineBudget = MaxScenarioLines
    /\ cfg \in [MaxConsecutiveRetries : {MaxRetries},
                SwallowThoughtsAfterRetry : {TRUE},
                EnablePunctuationHeuristic : {TRUE}]
    /\ maxOutputTokens = NoMaxOutputTokens

\* an upstream that finishes without text
InitEmpty ==
    /\ upstreamLines = EmptyLines
    /\ upstreamStatuses = OneStatusOfEachKind
    /\ lineBudget = MaxTotalLines
    /\ cfg \in [MaxConsecutiveRetries : {MaxRetries},
                SwallowThoughtsAfterRetry : {TRUE},
                EnablePunctuationHeuristic : {TRUE}]
    /\ maxOutputTokens = NoMaxOutputTokens

\* frames that meet several interruption tests, before and after a retry
InitPriority ==
    /\ upstreamLines = PriorityLines
    /\ upstreamStatuses = OneStatusOfEachKind
    /\ lineBudget = MaxScenarioLines
    /\ cfg \in [MaxConsecutiveRetries : {1},
                SwallowThoughtsAfterRetry : {TRUE},
                EnablePunctuationHeuristic : {FALSE}]
    /\ maxOutputTokens = NoMaxOutputTokens

\* one retry more than the heuristic needs, so that a streak can be broken
\* and taken up again
InitStreak ==
    /\ upstreamLines = StreakLines
    /\ upstreamStatuses = OneStatusOfEachKind
    /\ lineBudget = MaxScenarioLines
    /\ cfg \in [MaxConsecutiveRetries : {PunctStreakThreshold + 1},
                SwallowThoughtsAfterRetry : {FALSE},
                EnablePunctuationHeuristic : {TRUE}]
    /\ maxOutputTokens = NoMaxOutputTokens

\* an upstream that answers with every status, or not at all
InitStatuses ==
    /\ upstreamLines = StatusLines
    /\ upstreamStatuses = Statuses \cup {NetworkError}
    /\ lineBudget = MaxTotalLines
    /\ cfg \in [MaxConsecutiveRetries : {MaxRetries},
                SwallowThoughtsAfterRetry : {TRUE},
                EnablePunctuationHeuristic : {FALSE}]
    /\ maxOutputTokens = NoMaxOutputTokens

\* a request HandleStreamingPost (proxy.go 148-160) lets through, and the URL
\* its initial upstream request was made with
InitSendable ==
    /\ originalRequestBody = RequestBody(<<"user">>, maxOutputTokens)
    /\ upstreamURL = "wellformed"

\* every conversation of up to MaxContents entries, over RewriteLines
InitBodies ==
    /\ upstreamLines = RewriteLines
    /\ upstreamStatuses = OneStatusOfEachKind
    /\ lineBudget = MaxTotalLines
    /\ cfg \in [MaxConsecutiveRetries : {MaxRetries},
                SwallowThoughtsAfterRetry : {TRUE},
                EnablePunctuationHeuristic : {TRUE}]
    /\ maxOutputTokens = NoMaxOutputTokens
    /\ \E roles \in Conversations :
           originalRequestBody = RequestBody(roles, maxOutputTokens)
    /\ upstreamURL = "wellformed"

\* what a client may post to the handler: bytes that cannot be read or
\* decoded, and decoded bodies with and without contents, under every cap
InitRequests ==
    /\ upstreamLines = RewriteLines
    /\ upstreamStatuses = OneStatusOfEachKind
    /\ lineBudget = MaxTotalLines
    /\ cfg \in [MaxConsecutiveRetries : {0},
                SwallowThoughtsAfterRetry : {TRUE},
                EnablePunctuationHeuristic : {TRUE}]
    /\ maxOutputTokens = NoMaxOutputTokens
    /\ tokenCap \in {NoTokenCap} \cup 0..MaxContents
    /\ \/ /\ requestBytes \in {"unreadable", "invalid"}
          /\ originalRequestBody = BodyWithoutContents(maxOutputTokens)
       \/ /\ requestBytes = "valid"
          /\ \/ originalRequestBody \in {BodyWithoutContents(maxOutputTokens),
                                          RequestBody(<<>>, maxOutputTokens)}
             \/ \E roles \in Conversations :
                    originalRequestBody = RequestBody(roles, maxOutputTokens)
    /\ upstreamURL = "wellformed"

\* a request the handler does not pass on: its decoded body has no usable
\* contents (proxy.go 148-160), or the upstream URL made from the
\* configuration does not parse (197-202)
InitUnsendable ==
    /\ upstreamLines = PunctLines
    /\ upstreamStatuses = OneStatusOfEachKind
    /\ lineBudget = MaxTotalLines
    /\ cfg \in [MaxConsecutiveRetries : 0..MaxRetries,
                SwallowThoughtsAfterRetry : {TRUE},
                EnablePunctuationHeuristic : {TRUE}]
    /\ maxOutputTokens = NoMaxOutputTokens
    /\ \/ /\ originalRequestBody \in {BodyWithoutContents(maxOutputTokens),
                                       RequestBody(<<>>, maxOutputTokens)}
          /\ upstreamURL = "wellformed"
       \/ /\ originalRequestBody = RequestBody(<<"user">>, maxOutputTokens)
          /\ upstreamURL = "malformed"

\* a resumed attempt whose last frame is a STOP frame without the marker,
\* with text and without, after forwarded text that ends a sentence: as many
\* lines as the punctuation heuristic needs attempts, and one more
InitIncomplete ==
    /\ upstreamLines = {DataLine(<<"b", ".">>, FALSE, ""),
                        DataLine(<<"e", ".">>, FALSE, "STOP"),
                        DataLine(<<>>, FALSE, "STOP")}
    /\ upstreamStatuses = {StatusOK}
    /\ lineBudget = PunctStreakThreshold + 1
    /\ cfg \in [MaxConsecutiveRetries : {PunctStreakThreshold},
                SwallowThoughtsAfterRetry : {TRUE},
                EnablePunctuationHeuristic : {TRUE}]
    /\ maxOutputTokens = NoMaxOutputTokens

\* the request as HandleStreamingPost has decoded it (proxy.go 132-146); the
\* supervisor is entered from HandlerStartsStream only

SessionInit ==
    /\ \/ /\ \/ /\ (InitAnyLine \/ InitCap \/ InitPunct \/ InitMarker
                       \/ InitThought \/ InitEmpty \/ InitPriority
                       \/ InitStreak \/ InitStatuses \/ InitIncomplete)
                   /\ InitSendable
                \/ InitBodies
                \/ InitUnsendable
          /\ requestBytes = "valid"
          /\ tokenCap = NoTokenCap
       \/ InitRequests
    /\ retryBody = NotBuilt
    /\ jsonError = 0
    /\ sseStarted = FALSE
    /\ bodyClosed = FALSE
    /\ openBodies = {}
    /\ maxOutputChars = MaxOutputCharsOf(maxOutputTokens)
    /\ accumulatedText = <<>>
    /\ consecutiveRetryCount = 0
    /\ currentReader = 0
    /\ totalLinesProcessed = 0
    /\ isOutputtingFormalText = FALSE
    /\ swallowModeActive = FALSE
    /\ resumePunctStreak = 0
    /\ interruptionReason = ""
    /\ cleanExit = FALSE
    /\ line = BlankLine
    /\ attemptLastFormalText = <<>>
    /\ attemptLastFormalDataLine = BlankLine
    /\ attemptLastFormalTextFlushed = FALSE
    /\ attemptLastFormalLineId = 0
    /\ pc = "handler"
    /\ result = ""
    /\ sink = <<>>
    /\ writeFailed = FALSE
    /\ errorEventWrites = 0
    /\ readerAtEOF = FALSE
    /\ upstreamRequests = 0
    /\ initialStatus = NoStatus
    /\ lastStatus = NoStatus
    /\ softFailures = 0
    /\ interruptedAttempts = 0
    /\ punctEndedResumes = 0
    /\ punctEndedTotal = 0
    /\ attemptsStarted = 0
    /\ interruptingLines = {}

\* a decision list without the empty-response rule of lines 288-291
RetryDecision_NoEmptyCheck(l, acc, textChunk, isThought, finishReason) ==
    IF finishReason # "" /\ isThought THEN "FINISH_DURING_THOUGHT"
    ELSE IF IsBlockedLine(l) THEN "BLOCK"
    ELSE IF finishReason = "STOP" THEN
        LET trimmedText == TrimSpace(acc \o textChunk) IN
        IF ~HasSuffix(trimmedText, DoneToken) THEN "FINISH_INCOMPLETE"
        ELSE ""
    ELSE IF finishReason # "" /\ finishReason # "MAX_TOKENS" /\ finishReason # "STOP"
        THEN "FINISH_ABNORMAL"
    ELSE ""

\* a decision list without the [done] rule of lines 292-298
RetryDecision_NoDoneCheck(l, acc, textChunk, isThought, finishReason) ==
    IF finishReason # "" /\ isThought THEN "FINISH_DURING_THOUGHT"
    ELSE IF IsBlockedLine(l) THEN "BLOCK"
    ELSE IF finishReason = "STOP" THEN
        LET trimmedText == TrimSpace(acc \o textChunk) IN
        IF Len(trimmedText) = 0 THEN "FINISH_EMPTY_RESPONSE"
        ELSE ""
    ELSE IF finishReason # "" /\ finishReason # "MAX_TOKENS" /\ finishReason # "STOP"
        THEN "FINISH_ABNORMAL"
    ELSE ""

\* a decision list that looks at STOP before the block reason
RetryDecision_StopBeforeBlock(l, acc, textChunk, isThought, finishReason) ==
    IF finishReason # "" /\ isThought THEN "FINISH_DURING_THOUGHT"
    ELSE IF finishReason = "STOP" THEN
        LET trimmedText == TrimSpace(acc \o textChunk) IN
        IF Len(trimmedText) = 0 THEN "FINISH_EMPTY_RESPONSE"
        ELSE IF ~HasSuffix(trimmedText, DoneToken) THEN "FINISH_INCOMPLETE"
        ELSE ""
    ELSE IF IsBlockedLine(l) THEN "BLOCK"
    ELSE IF finishReason # "" /\ finishReason # "MAX_TOKENS" /\ finishReason # "STOP"
        THEN "FINISH_ABNORMAL"
    ELSE ""

(***************************************************************************)
(* Per-frame classification, lines 271-303: the interruption reason of a   *)
(* line, "" when the line is good.                                         *)
(***************************************************************************)
RetryDecision(l, acc, textChunk, isThought, finishReason) ==
    IF finishReason # "" /\ isThought THEN "FINISH_DURING_THOUGHT"
    ELSE IF IsBlockedLine(l) THEN "BLOCK"
    ELSE IF finishReason = "STOP" THEN
        LET trimmedText == TrimSpace(acc \o textChunk) IN
        IF Len(trimmedText) = 0 THEN "FINISH_EMPTY_RESPONSE"
        ELSE IF ~HasSuffix(trimmedText, DoneToken) THEN "FINISH_INCOMPLETE"
        ELSE ""
    ELSE IF finishReason # "" /\ finishReason # "MAX_TOKENS" /\ finishReason # "STOP"
        THEN "FINISH_ABNORMAL"
    ELSE ""

\* a formal text test that forgets the thought flag
IsFormalText_AnyText(textChunk, isThought) == textChunk # <<>>

\* lines 265 and 322: a formal text chunk
IsFormalText(textChunk, isThought) == textChunk # <<>> /\ ~isThought

\* a loop without the break of line 305: every line reaches the write
ForwardsLine_Always(reason) == TRUE

\* lines 305-313: only a line without interruption reason reaches the write
ForwardsLine(reason) == reason = ""

\* an end-of-response test that forgets STOP
IsEndOfResponse_MaxTokensOnly(finishReason) == finishReason = "MAX_TOKENS"

\* line 310
IsEndOfResponse(finishReason) == finishReason = "STOP" \/ finishReason = "MAX_TOKENS"

\* a write whose error is not looked at
WriteErrorReturned_Ignored(forwards, ok) == FALSE

\* lines 313-315: the write of a forwarded line returned an error
WriteErrorReturned(forwards, ok) == forwards /\ ~ok

\* lines 246-255: the swallow filter drops this line
Swallowed(active, isThought) == active /\ isThought

\* a loop without the check of line 330
CleanAfterForward_NoCap(acc, finishReason) == IsEndOfResponse(finishReason)

\* lines 330 and 336: the attempt ends cleanly after this forwarded line
CleanAfterForward(acc, finishReason) ==
    \/ (maxOutputChars > 0 /\ ByteLen(acc) >= maxOutputChars)
    \/ IsEndOfResponse(finishReason)

(***************************************************************************)
(* One iteration of the line loop, lines 232-341.                          *)
(***************************************************************************)
ProcessLine(l) ==
    /\ pc = "reading"
    /\ ~readerAtEOF
    /\ l \in upstreamLines
    /\ totalLinesProcessed < lineBudget
    /\ totalLinesProcessed' = totalLinesProcessed + 1
    /\ line' = l
    /\ LET content == IF IsDataLine(l) THEN ParseLineContent(l)
                      ELSE [Text |-> <<>>, IsThought |-> FALSE]
           textChunk == content.Text
           isThought == content.IsThought
           finishReason == ExtractFinishReason(l)
           formal == IsFormalText(textChunk, isThought)
           reason == RetryDecision(l, accumulatedText, textChunk, isThought,
                                   finishReason)
           forwards == ForwardsLine(reason)
           processedLine == RemoveDoneTokenFromLine(l, IsEndOfResponse(finishReason))
           newAcc == IF formal THEN accumulatedText \o textChunk ELSE accumulatedText
       IN
       IF Swallowed(swallowModeActive, isThought) THEN
           \* lines 247-255
           /\ IF finishReason # ""
              THEN /\ interruptionReason' = "FINISH_DURING_THOUGHT"
                   /\ interruptingLines' = interruptingLines \cup {totalLinesProcessed'}
                   /\ pc' = "epilogue"
              ELSE UNCHANGED <<interruptionReason, interruptingLines, pc>>
           /\ UNCHANGED <<accumulatedText, isOutputtingFormalText, swallowModeActive,
                          cleanExit, attemptLastFormalVars, result, sink, writeFailed>>
       ELSE
           \* the write of line 313 succeeds or fails
           \E ok \in (IF forwards THEN BOOLEAN ELSE {TRUE}) :
               \* lines 256-259: any line the filter lets through ends swallowing
               /\ swallowModeActive' = FALSE
               \* lines 265-269 and 326
               /\ IF formal
                  THEN /\ attemptLastFormalText' = textChunk
                       /\ attemptLastFormalDataLine' = l
                       /\ attemptLastFormalLineId' = totalLinesProcessed'
                       /\ attemptLastFormalTextFlushed' = (forwards /\ ok /\ reason = "")
                  ELSE UNCHANGED attemptLastFormalVars
               /\ sink' = IF forwards /\ ok
                          THEN Append(sink, FrameEntry(totalLinesProcessed', l,
                                                       processedLine))
                          ELSE sink
               /\ writeFailed' = (forwards /\ ~ok)
               /\ IF WriteErrorReturned(forwards, ok) THEN
                      \* lines 313-315
                      /\ result' = "failed to write to output stream"
                      /\ pc' = "done"
                      /\ UNCHANGED <<interruptionReason, interruptingLines,
                                     accumulatedText, isOutputtingFormalText, cleanExit>>
                  ELSE IF reason # "" THEN
                      \* lines 305-307
                      /\ interruptionReason' = reason
                      /\ interruptingLines' = interruptingLines \cup {totalLinesProcessed'}
                      /\ pc' = "epilogue"
                      /\ UNCHANGED <<accumulatedText, isOutputtingFormalText, cleanExit,
                                     result>>
                  ELSE
                      \* lines 322-340
                      /\ accumulatedText' = newAcc
                      /\ isOutputtingFormalText' = (isOutputtingFormalText \/ formal)
                      /\ cleanExit' = CleanAfterForward(newAcc, finishReason)
                      /\ pc' = IF cleanExit' THEN "epilogue" ELSE "reading"
                      /\ UNCHANGED <<interruptionReason, interruptingLines, result>>
    /\ UNCHANGED <<outsideSession, configVars, initialStatus, attemptsStarted, lastStatus, originalRequestBody, retryBody, errorEventWrites, handlerVars, consecutiveRetryCount, currentReader, resumePunctStreak,
                   readerAtEOF, upstreamRequests, softFailures,
                   interruptedAttempts, punctEndedResumes, punctEndedTotal>>

\* the line channel is closed: the loop of line 232 ends
EndOfStream ==
    /\ pc = "reading"
    /\ readerAtEOF' = TRUE
    /\ pc' = "epilogue"
    /\ UNCHANGED <<outsideSession, configVars, initialStatus, attemptsStarted, lastStatus, originalRequestBody, retryBody, errorEventWrites, handlerVars, accumulatedText, consecutiveRetryCount, currentReader,
                   totalLinesProcessed, isOutputtingFormalText, swallowModeActive,
                   resumePunctStreak, interruptionReason, cleanExit, line,
                   attemptLastFormalVars, result, sink, writeFailed, upstreamRequests,
                   softFailures, interruptedAttempts, punctEndedResumes, punctEndedTotal,
                   interruptingLines>>

(***************************************************************************)
(* After the line loop, lines 343-440: DROP detection, the punctuation     *)
(* heuristic with its tail flush, the clean exit, swallow activation and   *)
(* the retry limit.                                                        *)
(***************************************************************************)
\* a streak that is never reset
NextPunctStreak_NoReset(streak, lastFormalText) ==
    IF lastFormalText # <<>> /\ endsWithSentencePunctuation(lastFormalText)
    THEN streak + 1
    ELSE streak

\* lines 359-369: the streak after a resumed attempt that did not exit cleanly
NextPunctStreak(streak, lastFormalText) ==
    IF lastFormalText # <<>> /\ endsWithSentencePunctuation(lastFormalText)
    THEN streak + 1
    ELSE 0

\* a heuristic that starts counting at the second resumed attempt
HeuristicApplies_FromSecondRetry(enabled, clean, retryCount) ==
    enabled /\ ~clean /\ retryCount > 1

\* a heuristic that counts the first attempt too
HeuristicApplies_AnyAttempt(enabled, clean, retryCount) == enabled /\ ~clean

\* line 358
HeuristicApplies(enabled, clean, retryCount) == enabled /\ ~clean /\ retryCount > 0

\* a tail flush that does not look at the flushed flag
NeedsTailFlush_IgnoreFlushed(flushed, dataLine) == dataLine # BlankLine

\* line 375
NeedsTailFlush(flushed, dataLine) == ~flushed /\ dataLine # BlankLine

\* the limit test with > in place of >=
RetryLimitReached_Strict(retryCount, maxRetries) == retryCount > maxRetries

\* the limit test one retry early
RetryLimitReached_Early(retryCount, maxRetries) == retryCount + 1 >= maxRetries

\* a limit test that lets two more retries pass
RetryLimitReached_Late(retryCount, maxRetries) == retryCount >= maxRetries + 2

\* line 416
RetryLimitReached(retryCount, maxRetries) == retryCount >= maxRetries

\* line 407
SwallowAfterInterruption(active, swallowThoughts, outputtingFormal) ==
    IF swallowThoughts /\ outputtingFormal THEN TRUE ELSE active

AttemptEpilogue ==
    /\ pc = "epilogue"
    /\ LET reason == IF ~cleanExit /\ interruptionReason = "" THEN "DROP"
                     ELSE interruptionReason
           heuristic == HeuristicApplies(cfg.EnablePunctuationHeuristic, cleanExit,
                                         consecutiveRetryCount)
           streak == IF heuristic
                     THEN NextPunctStreak(resumePunctStreak, attemptLastFormalText)
                     ELSE resumePunctStreak
           heuristicExit == heuristic /\ streak >= PunctStreakThreshold
           tailFlush == heuristicExit /\ NeedsTailFlush(attemptLastFormalTextFlushed,
                                                        attemptLastFormalDataLine)
           tail == attemptLastFormalDataLine
           processed == RemoveDoneTokenFromLine(tail,
                            IsEndOfResponse(ExtractFinishReason(tail)))
       IN
       /\ interruptionReason' = reason
       /\ interruptedAttempts' = interruptedAttempts + (IF reason # "" THEN 1 ELSE 0)
       /\ punctEndedResumes' =
              IF cleanExit THEN punctEndedResumes
              ELSE IF consecutiveRetryCount > 0 /\ attemptLastFormalText # <<>>
                      /\ endsWithSentencePunctuation(attemptLastFormalText)
                   THEN punctEndedResumes + 1
                   ELSE 0
       /\ punctEndedTotal' =
              IF ~cleanExit /\ consecutiveRetryCount > 0 /\ attemptLastFormalText # <<>>
                 /\ endsWithSentencePunctuation(attemptLastFormalText)
              THEN punctEndedTotal + 1
              ELSE punctEndedTotal
       /\ resumePunctStreak' = streak
       /\ cleanExit' = (cleanExit \/ heuristicExit)
       /\ IF cleanExit' THEN
              \* lines 371-401; the write of line 379 succeeds or fails
              /\ \E ok \in (IF tailFlush THEN BOOLEAN ELSE {TRUE}) :
                    /\ writeFailed' = ~ok
                    /\ IF tailFlush /\ ok
                       THEN /\ sink' = Append(sink,
                                   FrameEntry(attemptLastFormalLineId, tail, processed))
                            /\ accumulatedText' =
                                   accumulatedText \o attemptLastFormalText
                            /\ isOutputtingFormalText' = TRUE
                       ELSE UNCHANGED <<sink, accumulatedText, isOutputtingFormalText>>
              /\ result' = "nil"
              /\ pc' = "done"
              /\ UNCHANGED <<swallowModeActive, errorEventWrites>>
          ELSE
              \* lines 403-440; the result of the write of line 432 is not looked at
              /\ swallowModeActive' =
                     SwallowAfterInterruption(swallowModeActive,
                         cfg.SwallowThoughtsAfterRetry, isOutputtingFormalText)
              /\ UNCHANGED <<accumulatedText, isOutputtingFormalText>>
              /\ IF RetryLimitReached(consecutiveRetryCount, cfg.MaxConsecutiveRetries)
                 THEN /\ \E ok \in BOOLEAN :
                            /\ writeFailed' = ~ok
                            /\ errorEventWrites' = errorEventWrites + 1
                            /\ sink' = IF ok
                                       THEN WriteErrorEvent(sink,
                                                ErrorEntry(consecutiveRetryCount,
                                                    DeadlineExceededCode,
                                                    "DEADLINE_EXCEEDED", reason))
                                       ELSE sink
                      /\ result' = "retry limit exceeded"
                      /\ pc' = "done"
                 ELSE /\ pc' = "retry"
                      /\ UNCHANGED <<sink, writeFailed, errorEventWrites, result>>
    /\ UNCHANGED <<outsideSession, configVars, initialStatus, attemptsStarted, lastStatus, originalRequestBody, retryBody, handlerVars, consecutiveRetryCount, currentReader, totalLinesProcessed,
                   line, attemptLastFormalVars, readerAtEOF, upstreamRequests,
                   softFailures, interruptingLines>>

(***************************************************************************)
(* The continuation request, lines 442-543, and the head of the next       *)
(* iteration of the attempt loop, lines 214-229.  The rewritten body is a  *)
(* map of decoded JSON values, so json.Marshal (line 474) succeeds.  The   *)
(* supervisor is called by HandleStreamingPost only (proxy.go 268), with a *)
(* body whose contents it has found to be a non-empty array (148-160) and  *)
(* with the URL its own http.NewRequest has accepted (197-202): the tests  *)
(* of lines 447 and 482 pass in every session.  The branches of 448-463    *)
(* and 483-487 are the steps RetryRewriteFail and RetryRequestNotCreated;  *)
(* no session started by the handler enables them, and they are steps of   *)
(* NextAnyCaller only.                                                     *)
(***************************************************************************)
\* lines 105-114: BuildRetryRequestBody returns an error
BuildRetryRequestBodyFails(body) == BuildRetryRequestBody(body, <<>>).err # ""

\* line 482: http.NewRequest returns an error
NewRequestFails(url) == url = "malformed"

\* the continuation request reaches client.Do, line 503
RequestIsSent == /\ ~BuildRetryRequestBodyFails(originalRequestBody)
                 /\ ~NewRequestFails(upstreamURL)

\* line 442
NextRetryCount(retryCount) == retryCount + 1

\* a soft failure that gives its retry back
RetryCountAfterSoftFail_Refunded(retryCount) == retryCount - 1

\* a soft failure that is counted a second time
RetryCountAfterSoftFail_CountedTwice(retryCount) == retryCount + 1

\* lines 504-510 and 532-538: a soft failure leaves the counter as line 442 set it
RetryCountAfterSoftFail(retryCount) == retryCount

\* lines 214-229
StartAttempt ==
    /\ interruptionReason' = ""
    /\ cleanExit' = FALSE
    /\ attemptLastFormalText' = <<>>
    /\ attemptLastFormalDataLine' = BlankLine
    /\ attemptLastFormalTextFlushed' = FALSE
    /\ attemptLastFormalLineId' = 0
    /\ attemptsStarted' = attemptsStarted + 1
    /\ pc' = "reading"

\* lines 446-463: BuildRetryRequestBody returns an error; the error event is
\* written, its result not looked at, and the supervisor returns the error
RetryRewriteFail ==
    /\ pc = "retry"
    /\ retryBody' = BuildRetryRequestBody(RewriteSource(originalRequestBody, retryBody),
                                        accumulatedText)
    /\ originalRequestBody' = originalRequestBody
    /\ BuildRetryRequestBodyFails(originalRequestBody)
    /\ consecutiveRetryCount' = NextRetryCount(consecutiveRetryCount)
    /\ \E ok \in BOOLEAN :
          /\ writeFailed' = ~ok
          /\ errorEventWrites' = errorEventWrites + 1
          /\ sink' = IF ok
                     THEN WriteErrorEvent(sink, ErrorEntry(consecutiveRetryCount',
                                      InvalidArgumentCode, "INVALID_ARGUMENT", ""))
                     ELSE sink
    /\ result' = "retry request validation failed"
    /\ pc' = "done"
    /\ UNCHANGED <<outsideSession, configVars, initialStatus, attemptsStarted, lastStatus, handlerVars, accumulatedText, currentReader, totalLinesProcessed,
                   isOutputtingFormalText, swallowModeActive, resumePunctStreak,
                   interruptionReason, cleanExit, line, attemptLastFormalVars,
                   readerAtEOF, upstreamRequests, softFailures, interruptedAttempts, punctEndedResumes, punctEndedTotal,
                   interruptingLines>>

\* lines 474-487: the body is rewritten and json.Marshal takes it, a map of
\* decoded JSON values; http.NewRequest returns an error: sleep, then the
\* attempt loop restarts on the reader it already had, and no request is sent
RetryRequestNotCreated ==
    /\ pc = "retry"
    /\ retryBody' = BuildRetryRequestBody(RewriteSource(originalRequestBody, retryBody),
                                        accumulatedText)
    /\ originalRequestBody' = originalRequestBody
    /\ ~BuildRetryRequestBodyFails(originalRequestBody)
    /\ NewRequestFails(upstreamURL)
    /\ consecutiveRetryCount' = NextRetryCount(consecutiveRetryCount)
    /\ StartAttempt
    /\ UNCHANGED <<outsideSession, configVars, initialStatus, lastStatus, errorEventWrites, handlerVars, accumulatedText, currentReader, totalLinesProcessed,
                   isOutputtingFormalText, swallowModeActive, resumePunctStreak, line,
                   result, sink, writeFailed, readerAtEOF, upstreamRequests,
                   softFailures, interruptedAttempts, punctEndedResumes, punctEndedTotal, interruptingLines>>

\* lines 532-543: status 200 installs the new response body as the reader
RetrySuccess ==
    /\ pc = "retry"
    /\ retryBody' = BuildRetryRequestBody(RewriteSource(originalRequestBody, retryBody),
                                        accumulatedText)
    /\ originalRequestBody' = originalRequestBody
    /\ RequestIsSent
    /\ consecutiveRetryCount' = NextRetryCount(consecutiveRetryCount)
    /\ upstreamRequests' = upstreamRequests + 1
    /\ lastStatus' = StatusOK
    /\ currentReader' = upstreamRequests
    /\ openBodies' = openBodies \cup {upstreamRequests}
    /\ readerAtEOF' = FALSE
    /\ StartAttempt
    /\ UNCHANGED <<outsideSession, configVars, initialStatus, errorEventWrites, jsonError, sseStarted, bodyClosed, accumulatedText, totalLinesProcessed,
                   isOutputtingFormalText, swallowModeActive, resumePunctStreak, line,
                   result, sink, writeFailed, softFailures,
                   interruptedAttempts, punctEndedResumes, punctEndedTotal, interruptingLines>>

\* lines 514-530: a non-retryable status ends the session with an SSE error
RetryHardFail(status) ==
    /\ pc = "retry"
    /\ retryBody' = BuildRetryRequestBody(RewriteSource(originalRequestBody, retryBody),
                                        accumulatedText)
    /\ originalRequestBody' = originalRequestBody
    /\ RequestIsSent
    /\ status \in nonRetryableStatuses
    /\ consecutiveRetryCount' = NextRetryCount(consecutiveRetryCount)
    /\ upstreamRequests' = upstreamRequests + 1
    /\ lastStatus' = status
    /\ \E ok \in BOOLEAN :
          /\ writeFailed' = ~ok
          /\ errorEventWrites' = errorEventWrites + 1
          /\ sink' = IF ok
                     THEN WriteErrorEvent(sink, ErrorEntry(consecutiveRetryCount', status,
                                                  "upstream error body", ""))
                     ELSE sink
    /\ result' = "non-retryable error"
    /\ pc' = "done"
    /\ UNCHANGED <<outsideSession, configVars, initialStatus, attemptsStarted, handlerVars, accumulatedText, currentReader, totalLinesProcessed,
                   isOutputtingFormalText, swallowModeActive, resumePunctStreak,
                   interruptionReason, cleanExit, line, attemptLastFormalVars,
                   readerAtEOF, softFailures, interruptedAttempts, punctEndedResumes, punctEndedTotal,
                   interruptingLines>>

\* lines 504-510 and 532-538: a network error or another non-200 status:
\* sleep, then the attempt loop restarts on the reader it already had
RetrySoftFail(status) ==
    /\ pc = "retry"
    /\ retryBody' = BuildRetryRequestBody(RewriteSource(originalRequestBody, retryBody),
                                        accumulatedText)
    /\ originalRequestBody' = originalRequestBody
    /\ RequestIsSent
    /\ \/ status = NetworkError
       \/ status \in Statuses /\ status # StatusOK /\ status \notin nonRetryableStatuses
    /\ softFailures < MaxSoftFailures
    /\ consecutiveRetryCount' =
           RetryCountAfterSoftFail(NextRetryCount(consecutiveRetryCount))
    /\ upstreamRequests' = upstreamRequests + 1
    /\ lastStatus' = status
    /\ softFailures' = softFailures + 1
    /\ StartAttempt
    /\ UNCHANGED <<outsideSession, configVars, initialStatus, errorEventWrites, handlerVars, accumulatedText, currentReader, totalLinesProcessed,
                   isOutputtingFormalText, swallowModeActive, resumePunctStreak, line,
                   result, sink, writeFailed, readerAtEOF,
                   interruptedAttempts, punctEndedResumes, punctEndedTotal, interruptingLines>>

(***************************************************************************)
(* HandleStreamingPost, proxy.go 119-284: the checks and the initial       *)
(* request before the stream, and the return after it.                     *)
(***************************************************************************)
\* what can stop a request before the initial upstream request is sent, with
\* the status of the JSON error (lines 132-202)
RejectionCode ==
    [unreadableBody |-> 400, invalidJSON |-> 400, invalidContents |-> 400,
     tokenLimit |-> TokenLimitExceededCode, requestNotCreated |-> 500]

\* a contents test that lets the empty array pass
HasMessages_AllowEmpty(body) == "contents" \in DOMAIN body

\* lines 148-160: contents is an array with at least one entry
HasMessages(body) == "contents" \in DOMAIN body /\ Len(body.contents) > 0

\* sum of the lengths of the sequences of a sequence
RECURSIVE SumOfLengths(_)
SumOfLengths(seqs) ==
    IF seqs = <<>> THEN 0 ELSE Len(Head(seqs)) + SumOfLengths(Tail(seqs))

\* proxy.go 401-419: the words of the text parts of every entry of contents;
\* a part of the model is a text of one word
estimateTokenCount(body) ==
    IF "contents" \in DOMAIN body
    THEN SumOfLengths([i \in 1..Len(body.contents) |-> body.contents[i].parts])
    ELSE 0

\* lines 162-175: the model has a cap and the estimate is above it
ExceedsTokenCap(body, cap) == cap # NoTokenCap /\ estimateTokenCount(body) > cap

\* lines 132-202: the first check that stops the request, "none" when the
\* initial request is sent
RejectionOf(bytes, body, cap, url) ==
    IF bytes = "unreadable" THEN "unreadableBody"
    ELSE IF bytes = "invalid" THEN "invalidJSON"
    ELSE IF ~HasMessages(body) THEN "invalidContents"
    ELSE IF ExceedsTokenCap(body, cap) THEN "tokenLimit"
    ELSE IF NewRequestFails(url) THEN "requestNotCreated"
    ELSE "none"

\* the request is stopped for this cause
Rejects(cause) ==
    RejectionOf(requestBytes, originalRequestBody, tokenCap, upstreamURL) = cause

\* lines 132-202: a JSON error response, no upstream request.  The checks
\* of 132-175 come before h.InjectSystemPrompt(requestBody) of line 178,
\* which works on the decoded map itself; http.NewRequest (198) comes after
HandlerRejects(cause) ==
    /\ pc = "handler"
    /\ Rejects(cause)
    /\ originalRequestBody' =
           IF cause = "requestNotCreated"
           THEN InjectSystemPrompt(originalRequestBody)
           ELSE originalRequestBody
    /\ jsonError' = RejectionCode[cause]
    /\ pc' = "rejected"
    /\ UNCHANGED <<outsideSession, configVars, initialStatus, attemptsStarted, lastStatus, retryBody, errorEventWrites, sseStarted, bodyClosed, openBodies, accumulatedText,
                   consecutiveRetryCount, currentReader, totalLinesProcessed,
                   isOutputtingFormalText, swallowModeActive, resumePunctStreak,
                   interruptionReason, cleanExit, line, attemptLastFormalVars,
                   result, sink, writeFailed, readerAtEOF, upstreamRequests,
                   softFailures, interruptedAttempts,
                   punctEndedResumes, punctEndedTotal, interruptingLines>>

\* a handler that gives up only on what the supervisor does not retry
StreamStarts_UnlessNotRetried(status) ==
    status # NetworkError /\ status \notin nonRetryableStatuses

\* line 217: the initial response lets the stream start
StreamStarts(status) == status = StatusOK

\* lines 178-250: the system prompt is injected; the initial request fails
\* (502) or is answered with another status than 200: a JSON error response
\* with that status
HandlerInitialFailure(status) ==
    /\ pc = "handler"
    /\ Rejects("none")
    /\ ~StreamStarts(status)
    /\ originalRequestBody' = InjectSystemPrompt(originalRequestBody)
    /\ initialStatus' = status
    /\ upstreamRequests' = upstreamRequests + 1
    /\ jsonError' = (IF status = NetworkError THEN BadGatewayCode ELSE status)
    /\ bodyClosed' = (status # NetworkError)
    /\ pc' = "rejected"
    /\ UNCHANGED <<outsideSession, configVars, attemptsStarted, lastStatus, retryBody, errorEventWrites, sseStarted, openBodies, accumulatedText,
                   consecutiveRetryCount, currentReader, totalLinesProcessed,
                   isOutputtingFormalText, swallowModeActive, resumePunctStreak,
                   interruptionReason, cleanExit, line, attemptLastFormalVars,
                   result, sink, writeFailed, readerAtEOF,
                   softFailures, interruptedAttempts,
                   punctEndedResumes, punctEndedTotal, interruptingLines>>

\* lines 178-275: the system prompt is injected, the request is answered 200:
\* the SSE headers and status 200 are written and the supervisor is called
\* with the response body as its first reader and the injected request body
HandlerStartsStream ==
    /\ pc = "handler"
    /\ Rejects("none")
    /\ \E status \in upstreamStatuses :
          /\ StreamStarts(status)
          /\ initialStatus' = status
    /\ originalRequestBody' = InjectSystemPrompt(originalRequestBody)
    /\ upstreamRequests' = upstreamRequests + 1
    /\ sseStarted' = TRUE
    /\ openBodies' = openBodies \cup {0}
    /\ attemptsStarted' = attemptsStarted + 1
    /\ pc' = "reading"
    /\ UNCHANGED <<outsideSession, configVars, lastStatus, retryBody, errorEventWrites, jsonError, bodyClosed, accumulatedText,
                   consecutiveRetryCount, currentReader, totalLinesProcessed,
                   isOutputtingFormalText, swallowModeActive, resumePunctStreak,
                   interruptionReason, cleanExit, line, attemptLastFormalVars,
                   result, sink, writeFailed, readerAtEOF,
                   softFailures, interruptedAttempts,
                   punctEndedResumes, punctEndedTotal, interruptingLines>>

\* a handler that answers the supervisor's error with a JSON error
ReportsStreamError_AsJSON(err) == err # "nil"

\* lines 277-280: the supervisor's error is logged, not reported to the client
ReportsStreamError(err) == FALSE

\* lines 277-284: the supervisor has returned; the initial body is closed
HandlerReturns ==
    /\ pc = "done"
    /\ ~bodyClosed
    /\ bodyClosed' = TRUE
    /\ openBodies' = openBodies \ {0}
    /\ jsonError' = (IF ReportsStreamError(result) THEN 500 ELSE jsonError)
    /\ UNCHANGED <<outsideSession, configVars, initialStatus, attemptsStarted, lastStatus, originalRequestBody, retryBody, errorEventWrites, sseStarted, accumulatedText,
                   consecutiveRetryCount, currentReader, totalLinesProcessed,
                   isOutputtingFormalText, swallowModeActive, resumePunctStreak,
                   interruptionReason, cleanExit, line, attemptLastFormalVars, pc,
                   result, sink, writeFailed, readerAtEOF, upstreamRequests,
                   softFailures, interruptedAttempts,
                   punctEndedResumes, punctEndedTotal, interruptingLines>>

Init == SessionInit /\ InjectIdle /\ LimiterIdle /\ ProducersIdle /\ RewriteIdle

Next ==
    \/ \E l \in AllLines : ProcessLine(l)
    \/ EndOfStream
    \/ AttemptEpilogue
    \/ RetrySuccess
    \/ \E status \in upstreamStatuses : RetryHardFail(status)
    \/ \E status \in upstreamStatuses : RetrySoftFail(status)
    \/ \E cause \in DOMAIN RejectionCode : HandlerRejects(cause)
    \/ \E status \in upstreamStatuses : HandlerInitialFailure(status)
    \/ HandlerStartsStream
    \/ HandlerReturns

Spec == Init /\ [][Next]_vars

\* the steps of the supervisor whoever calls it: those of Next and the two
\* exits of the continuation request that need a body BuildRetryRequestBody
\* rejects or a URL http.NewRequest rejects
NextAnyCaller ==
    \/ Next
    \/ RetryRewriteFail
    \/ RetryRequestNotCreated

(***************************************************************************)
(* The session with progress.  The handler's goroutine keeps running: an   *)
(* upstream response ends (the line channel is closed, EndOfStream), a     *)
(* continuation call returns with a response or an error (the Retry        *)
(* actions), and time.Sleep returns; so a step that can be taken is taken. *)
(* The sessions are those of an upstream that answers with every status,   *)
(* of requests that cannot be continued, and of the longest retry budgets. *)
(***************************************************************************)
InitProgress ==
    /\ Init
    /\ InitStatuses \/ InitEmpty \/ InitPriority \/ InitStreak \/ InitUnsendable

SpecProgress == InitProgress /\ [][Next]_vars /\ WF_vars(Next)

(***************************************************************************)
(* InjectSystemPrompt on its own: every request of InjectableBodies, and   *)
(* the one call HandleStreamingPost makes (proxy.go 178).  No session runs.*)
(***************************************************************************)
\* one fixed state of the session variables
SessionIdle ==
    /\ SessionInit
    /\ cfg.MaxConsecutiveRetries = 0
    /\ upstreamURL = "malformed"

InitInject ==
    /\ SessionIdle
    /\ LimiterIdle
    /\ ProducersIdle
    /\ RewriteIdle
    /\ requestBody \in InjectableBodies
    /\ receivedBody = requestBody
    /\ promptInjected = FALSE

\* proxy.go 178
InjectPrompt ==
    /\ ~promptInjected
    /\ requestBody' = InjectSystemPrompt(requestBody)
    /\ promptInjected' = TRUE
    /\ UNCHANGED <<sessionVars, rewriteVars, limiterVars, producerVars, receivedBody>>

NextInject == InjectPrompt

SpecInject == InitInject /\ [][NextInject]_vars

(***************************************************************************)
(* BuildRetryRequestBody on its own: the request bodies HandleStreamingPost *)
(* passes on, every conversation of up to MaxRewriteContents entries       *)
(* decoded by json.Unmarshal (proxy.go 140) with the system prompt         *)
(* injected (178), the entries of contents in the array the decoder left;  *)
(* and the calls the supervisor makes on such a body (retry.go 446), each  *)
(* with the text accumulated by then.                                      *)
(***************************************************************************)
InitRewrite ==
    /\ SessionIdle
    /\ InjectIdle
    /\ LimiterIdle
    /\ ProducersIdle
    /\ \E n \in 1..MaxRewriteContents :
          \E roles \in [1..n -> Roles] :
              LET body == InjectSystemPrompt(RequestBody(roles, NoMaxOutputTokens))
              IN heap = [maps |-> <<[body EXCEPT !.contents =
                                        [array |-> 1, len |-> n,
                                         cap |-> DecodedCap(n)]]>>,
                         arrays |-> <<body.contents
                                      \o [i \in 1..(DecodedCap(n) - n) |->
                                              [unused |-> TRUE]]>>]
    /\ rewrites = <<>>

\* retry.go 446: one call on the request body, map 1; what it returned is
\* kept as json.Marshal would read it then
Rewrite(text) ==
    /\ Len(rewrites) < MaxRewrites
    /\ LET built == BuildRetryRequestBodyInMemory(heap, 1, text)
       IN /\ heap' = built.heap
          /\ rewrites' = Append(rewrites,
                             [text |-> text, map |-> built.map,
                              result |-> IF built.err = ""
                                         THEN [err |-> "",
                                               body |-> ReadBody(built.heap, built.map)]
                                         ELSE [err |-> built.err]])
    /\ UNCHANGED <<sessionVars, injectVars, limiterVars, producerVars>>

NextRewrite == \E text \in {<<"a">>, <<"b", ".">>} : Rewrite(text)

SpecRewrite == InitRewrite /\ [][NextRewrite]_vars

(***************************************************************************)
(* The rate limiter on its own: concurrent callers of Wait and the clock.  *)
(* No session runs.                                                        *)
(***************************************************************************)
InitLimiter ==
    /\ SessionIdle
    /\ InjectIdle
    /\ RewriteIdle
    /\ ProducersIdle
    /\ limit \in 0..MaxLimit
    /\ window = MaxWindow
    /\ now = 0
    /\ clients = [k \in Keys |-> <<>>]
    /\ mutex = "unlocked"
    /\ callers = EmptyBag
    /\ admitted = [k \in Keys |-> [t \in 0..MaxTime |-> 0]]
    /\ calls = <<>>
    /\ recalls = FALSE

\* c is replaced by d among the callers
Becomes(c, d) == (callers (-) SetToBag({c})) (+) SetToBag({d})

\* proxy.go 355-370: a request with an API key reaches h.RateLimiter.Wait
CallWait(k) ==
    /\ BagCardinality(callers) < MaxCallers
    /\ callers' = callers (+) SetToBag({AtLock(k)})
    /\ UNCHANGED <<sessionVars, rewriteVars, injectVars, producerVars, calls, recalls, limit, window, now, clients, mutex, admitted>>

\* lines 29-59, one pass of the loop with the mutex locked: the request is
\* admitted and recorded and Wait returns, or the caller leaves to sleep until
\* the oldest timestamp is a window old.  With limit <= 0 line 55 indexes an
\* empty slice: the goroutine panics with the mutex locked
Enter(c) ==
    /\ c.pc = "lock"
    /\ mutex = "unlocked"
    /\ LET cutoff == now - window
           timestamps == ValidTimestamps(clients[c.key], cutoff)
       IN IF UnderLimit(Len(timestamps), limit)
          THEN /\ clients' = [clients EXCEPT ![c.key] = Append(timestamps, now)]
               /\ admitted' = [admitted EXCEPT ![c.key][now] = @ + 1]
               /\ mutex' = "unlocked"
               /\ callers' = callers (-) SetToBag({c})
          ELSE IF Len(timestamps) = 0
          THEN /\ mutex' = "locked"
               /\ callers' = Becomes(c, [c EXCEPT !.pc = "panicked", !.holds = TRUE])
               /\ UNCHANGED <<clients, admitted>>
          ELSE /\ mutex' = (IF HoldsMutexInSleep THEN "locked" ELSE "unlocked")
               /\ callers' = Becomes(c, [pc |-> "sleeping", key |-> c.key, at |-> now,
                                         until |-> timestamps[1] + window,
                                         holds |-> HoldsMutexInSleep])
               /\ UNCHANGED <<clients, admitted>>
    /\ UNCHANGED <<sessionVars, rewriteVars, injectVars, producerVars, calls, recalls, limit, window, now>>

\* lines 60-65: the sleep, if any, is over; the loop starts again
Wake(c) ==
    /\ c.pc = "sleeping"
    /\ now >= c.until
    /\ callers' = Becomes(c, AtLock(c.key))
    /\ mutex' = (IF c.holds THEN "unlocked" ELSE mutex)
    /\ UNCHANGED <<sessionVars, rewriteVars, injectVars, producerVars, calls, recalls, limit, window, now, clients, admitted>>

\* the clock; admissions more than a window old are forgotten
Tick ==
    /\ now < MaxTime
    /\ now' = now + 1
    /\ admitted' = [k \in Keys |-> [t \in 0..MaxTime |->
                        IF t < now' - window THEN 0 ELSE admitted[k][t]]]
    /\ UNCHANGED <<sessionVars, rewriteVars, injectVars, producerVars, calls, recalls, limit, window, clients, mutex, callers>>

NextLimiter ==
    \/ \E k \in Keys : CallWait(k)
    \/ \E c \in BagToSet(callers) : Enter(c)
    \/ \E c \in BagToSet(callers) : Wake(c)
    \/ Tick

SpecLimiter == InitLimiter /\ [][NextLimiter]_vars

(***************************************************************************)
(* What the client has received, read off the sink.                        *)
(***************************************************************************)
IsFrame(e) == e.kind = "frame"
IsError(e) == e.kind = "error"

\* the entry carries formal text: text that is not empty and not a thought
CarriesFormalText(l) == l.data /\ l.cands /\ l.text # <<>> /\ ~l.thought

SinkFrames == SelectSeq(sink, IsFrame)
SinkErrors == SelectSeq(sink, IsError)

RECURSIVE TextReceived(_)
TextReceived(entries) ==
    IF entries = <<>> THEN <<>>
    ELSE (IF CarriesFormalText(Head(entries).written)
          THEN Head(entries).written.text ELSE <<>>)
         \o TextReceived(Tail(entries))

RECURSIVE FormalTextRead(_)
FormalTextRead(entries) ==
    IF entries = <<>> THEN <<>>
    ELSE (IF CarriesFormalText(Head(entries).line)
          THEN Head(entries).line.text ELSE <<>>)
         \o FormalTextRead(Tail(entries))

\* the formal text the client holds
ClientText == TextReceived(SinkFrames)

SessionEnded == pc = "done"
\* the supervisor has been called
InSession == pc \in {"reading", "epilogue", "retry", "done"}
\* every continuation was sent and answered 200
AllContinuationsOK ==
    softFailures = 0 /\ result # "non-retryable error"
HeuristicExit == result = "nil" /\ interruptionReason # ""

(***************************************************************************)
(* C1: in every reachable state of a session the retry count is at most    *)
(* the configured maximum of retries.                                      *)
(***************************************************************************)
C1_RetryCountBounded == consecutiveRetryCount <= cfg.MaxConsecutiveRetries

\* the bound is met: a session that used every retry and failed on the limit
C1_Witness ==
    /\ result = "retry limit exceeded"
    /\ consecutiveRetryCount = cfg.MaxConsecutiveRetries
    /\ consecutiveRetryCount >= 2

\* the session ended on the retry limit with the 504 event as its last frame
EndsWithDeadlineEvent ==
    /\ result = "retry limit exceeded"
    /\ (~writeFailed =>
            /\ Len(SinkErrors) = 1
            /\ sink[Len(sink)].kind = "error"
            /\ sink[Len(sink)].code = DeadlineExceededCode
            /\ sink[Len(sink)].status = "DEADLINE_EXCEEDED"
            /\ sink[Len(sink)].reason = interruptionReason
            /\ interruptionReason # "")

(***************************************************************************)
(* C2, as claimed: with every continuation answered 200, max_retries       *)
(* interrupted attempts followed by a clean one give success without an    *)
(* error frame, and max_retries+1 interrupted attempts give failure with   *)
(* the 504 DEADLINE_EXCEEDED event naming the last reason.                 *)
(***************************************************************************)
C2_AsClaimed ==
    (SessionEnded /\ AllContinuationsOK) =>
        /\ (interruptedAttempts = cfg.MaxConsecutiveRetries /\ result = "nil"
                => SinkErrors = <<>>)
        /\ (interruptedAttempts = cfg.MaxConsecutiveRetries + 1
                => EndsWithDeadlineEvent)

(***************************************************************************)
(* C2, amended: the same, where the last of the max_retries+1 interrupted  *)
(* attempts is not turned into a clean exit by the punctuation heuristic;  *)
(* with at most max_retries interrupted attempts the session never ends on *)
(* the retry limit, and a successful session holds no error frame.         *)
(***************************************************************************)
C2_RetryBudget ==
    (SessionEnded /\ AllContinuationsOK) =>
        /\ (result = "nil" => SinkErrors = <<>>)
        /\ (interruptedAttempts <= cfg.MaxConsecutiveRetries
                => result # "retry limit exceeded")
        /\ (interruptedAttempts = cfg.MaxConsecutiveRetries + 1 /\ ~HeuristicExit
                => EndsWithDeadlineEvent)
        /\ (result = "retry limit exceeded" => EndsWithDeadlineEvent)

C2_Witness ==
    /\ SessionEnded /\ AllContinuationsOK
    /\ cfg.MaxConsecutiveRetries >= 1
    /\ interruptedAttempts = cfg.MaxConsecutiveRetries + 1
    /\ result = "retry limit exceeded"
    /\ ~writeFailed
    /\ sink[Len(sink)].code = DeadlineExceededCode

(***************************************************************************)
(* C3: at the end of every session, however it ends (clean exit,           *)
(* retry-limit error, hard-fail error or sink write failure), the number   *)
(* of upstream requests, the initial one and the continuations, is 1 + the *)
(* retry count.  No session ends on a rewrite failure: at every step of a  *)
(* session the body the handler passed on is one BuildRetryRequestBody     *)
(* accepts and the URL one http.NewRequest accepts, so every continuation  *)
(* that is counted is sent.                                                *)
(***************************************************************************)
C3_RequestsMatchRetryCount ==
    /\ SessionEnded => upstreamRequests = 1 + consecutiveRetryCount
    /\ InSession => RequestIsSent
    /\ ~ENABLED RetryRewriteFail
    /\ ~ENABLED RetryRequestNotCreated

\* a session that ended after two continuation requests, one of which failed
\* softly
C3_Witness ==
    /\ SessionEnded
    /\ softFailures = 1
    /\ consecutiveRetryCount = 2
    /\ upstreamRequests = 3
    /\ sink # <<>>

(***************************************************************************)
(* C4, as claimed: no frame written to the client carries [done] in its    *)
(* text, and the text the client has received never contains [done].       *)
(***************************************************************************)
C4_NoDoneEmitted ==
    /\ \A i \in 1..Len(sink) :
           IsFrame(sink[i]) => ~Contains(sink[i].written.text, DoneToken)
    /\ ~Contains(ClientText, DoneToken)

(***************************************************************************)
(* C5, as claimed: the frame that triggered an interruption is never       *)
(* written to the client sink.                                             *)
(***************************************************************************)
C5_AsClaimed ==
    \A i \in 1..Len(sink) : IsFrame(sink[i]) => sink[i].id \notin interruptingLines

(***************************************************************************)
(* C5, amended: the frame that triggered an interruption is never written  *)
(* by the forward step; it reaches the sink only as the tail flush of the  *)
(* punctuation heuristic: as the last frame of a session that the          *)
(* heuristic ended cleanly, and it is the last formal frame of the last    *)
(* attempt.                                                                *)
(***************************************************************************)
C5_OnlyTailFlushForwardsInterrupter ==
    \A i \in 1..Len(sink) :
        (IsFrame(sink[i]) /\ sink[i].id \in interruptingLines) =>
            /\ i = Len(sink)
            /\ HeuristicExit
            /\ resumePunctStreak >= PunctStreakThreshold
            /\ sink[i].id = totalLinesProcessed
            /\ sink[i].line = attemptLastFormalDataLine
            /\ ~attemptLastFormalTextFlushed

\* the tail flush has written an interrupting frame
C5_Witness ==
    /\ SessionEnded
    /\ sink # <<>>
    /\ IsFrame(sink[Len(sink)])
    /\ sink[Len(sink)].id \in interruptingLines
    /\ interruptionReason = "FINISH_INCOMPLETE"

(***************************************************************************)
(* C6: no upstream frame is written to the sink twice, and the accumulated *)
(* text is the concatenation, in order, of the text of the formal frames   *)
(* written to the sink, the tail flush included.                           *)
(***************************************************************************)
C6_WrittenOnceAndAccumulated ==
    /\ \A i, j \in 1..Len(sink) :
           (IsFrame(sink[i]) /\ IsFrame(sink[j]) /\ i # j) => sink[i].id # sink[j].id
    /\ accumulatedText = FormalTextRead(SinkFrames)

\* formal frames of two attempts in the sink, the last one a tail flush
C6_Witness ==
    /\ SessionEnded
    /\ Len(SinkFrames) >= 3
    /\ sink[Len(sink)].kind = "frame"
    /\ sink[Len(sink)].id \in interruptingLines
    /\ accumulatedText # <<>>

(***************************************************************************)
(* C7, as claimed: at the end of every session the text the client has     *)
(* received is the accumulated text with the [done] marker removed.        *)
(***************************************************************************)
C7_ClientTextIsAccumulatedText ==
    SessionEnded => ClientText = RemoveAll(accumulatedText, DoneToken)

\* the retry count at the time the last formal fragment was forwarded
RetryCountAtLastFormal ==
    LET idx == {i \in 1..Len(sink) :
                    IsFrame(sink[i]) /\ CarriesFormalText(sink[i].line)}
    IN IF idx = {} THEN 0
       ELSE sink[CHOOSE i \in idx : \A k \in idx : k <= i].attempt

\* the continuation attempts made since then
RetriesSinceLastFormal == consecutiveRetryCount - RetryCountAtLastFormal

(***************************************************************************)
(* C8, as claimed: the retry count is the number of continuation attempts  *)
(* made since the last formal text fragment was forwarded.                 *)
(***************************************************************************)
C8_CountsSinceLastFormal == consecutiveRetryCount = RetriesSinceLastFormal

(***************************************************************************)
(* C9: frames are in the sink in the order they were read, and a frame of  *)
(* a later attempt is after every frame of an earlier attempt; an error    *)
(* event is the last entry.                                                *)
(***************************************************************************)
C9_SinkOrder ==
    \A i, j \in 1..Len(sink) :
        i < j =>
            /\ IsFrame(sink[i])
            /\ (IsFrame(sink[j]) =>
                   /\ sink[i].id < sink[j].id
                   /\ sink[i].attempt <= sink[j].attempt
                   /\ sink[i].reader <= sink[j].reader)

\* frames of three attempts in the sink
C9_Witness ==
    /\ Len(SinkFrames) >= 3
    /\ SinkFrames[1].attempt < SinkFrames[2].attempt
    /\ SinkFrames[2].attempt < SinkFrames[3].attempt

(***************************************************************************)
(* C10, as claimed: swallowing, once active, ends only when a non-thought  *)
(* frame with text arrives; lines without text do not end it.              *)
(***************************************************************************)
C10_SwallowEndsAtFormalText ==
    [][(swallowModeActive /\ ~swallowModeActive') => CarriesFormalText(line')]_vars

(***************************************************************************)
(* C11: with the punctuation heuristic enabled and max_retries >= 3, once  *)
(* three resumed attempts in a row have ended without clean exit on formal *)
(* text with sentence punctuation, the session has ended in clean exit:    *)
(* result nil, no error event, the retry gate not reached; the last formal *)
(* frame of the third attempt is in the sink exactly once (when the sink   *)
(* took the write) and its text ends the accumulated text.                 *)
(***************************************************************************)
C11_PunctuationHeuristicExit ==
    (/\ cfg.EnablePunctuationHeuristic
     /\ cfg.MaxConsecutiveRetries >= PunctStreakThreshold
     /\ punctEndedResumes >= PunctStreakThreshold) =>
        /\ SessionEnded
        /\ result = "nil"
        /\ interruptionReason # ""
        /\ SinkErrors = <<>>
        /\ punctEndedResumes = PunctStreakThreshold
        /\ consecutiveRetryCount <= cfg.MaxConsecutiveRetries
        /\ (~writeFailed =>
               /\ Cardinality({i \in 1..Len(sink) :
                                  sink[i].id = attemptLastFormalLineId}) = 1
               /\ (~attemptLastFormalTextFlushed =>
                      /\ sink[Len(sink)].id = attemptLastFormalLineId
                      /\ sink[Len(sink)].line = attemptLastFormalDataLine)
               /\ HasSuffix(accumulatedText, attemptLastFormalText))
        /\ (writeFailed =>
               \A i \in 1..Len(sink) : sink[i].id # attemptLastFormalLineId)

\* the heuristic ended a session on a STOP frame without [done], which the
\* tail flush then wrote
C11_Witness ==
    /\ cfg.EnablePunctuationHeuristic
    /\ punctEndedResumes = PunctStreakThreshold
    /\ interruptionReason = "FINISH_INCOMPLETE"
    /\ ~attemptLastFormalTextFlushed
    /\ ~writeFailed
    /\ sink # <<>>
    /\ sink[Len(sink)].id = attemptLastFormalLineId
    /\ ExtractFinishReason(sink[Len(sink)].line) = "STOP"

\* the cap as the claim words it: maxOutputTokens itself when positive
ClaimedCapReached(len) ==
    IF maxOutputTokens.whole > 0 \/ (maxOutputTokens.whole = 0 /\ maxOutputTokens.frac)
    THEN (IF maxOutputTokens.frac THEN len > maxOutputTokens.whole
          ELSE len >= maxOutputTokens.whole)
    ELSE len >= DefaultMaxOutputChars

(***************************************************************************)
(* C12, as claimed: every line is read while the accumulated text is       *)
(* shorter than max_output_chars, the client's maxOutputTokens if          *)
(* positive, otherwise 65535.                                              *)
(***************************************************************************)
C12_AsClaimed == pc = "reading" => ~ClaimedCapReached(ByteLen(accumulatedText))

(***************************************************************************)
(* C12, amended: with max_output_chars the integer part of a positive      *)
(* maxOutputTokens (65535 without one) and greater than 0: every line is   *)
(* read while the accumulated text is shorter than the cap; once the text  *)
(* has reached the cap the attempt has exited cleanly, and a cleanly       *)
(* exited attempt ends the session with success in its next step, with     *)
(* nothing more read, no error event and no continuation request.          *)
(***************************************************************************)
C12_OutputCapEndsSession ==
    /\ [](maxOutputChars > 0 =>
            /\ (pc = "reading" => ByteLen(accumulatedText) < maxOutputChars)
            /\ (ByteLen(accumulatedText) >= maxOutputChars =>
                    \/ pc = "epilogue" /\ cleanExit /\ interruptionReason = ""
                    \/ pc = "done" /\ result = "nil"))
    /\ [][(pc = "epilogue" /\ cleanExit) =>
              /\ pc' = "done"
              /\ result' = "nil"
              /\ sink' = sink
              /\ totalLinesProcessed' = totalLinesProcessed
              /\ upstreamRequests' = upstreamRequests]_vars

\* a resumed attempt reached the cap on a frame without finish reason
C12_Witness ==
    /\ maxOutputTokens = Number(SmallOutputCap, FALSE)
    /\ ByteLen(accumulatedText) >= maxOutputChars
    /\ ExtractFinishReason(line) = ""
    /\ consecutiveRetryCount >= 1
    /\ result = "nil"

\* the step read a line
LineRead == totalLinesProcessed' = totalLinesProcessed + 1

\* the line read finishes with STOP while nothing but white space has been
\* accumulated, its own text included
EmptyStopRead ==
    /\ LineRead
    /\ ExtractFinishReason(line') = "STOP"
    /\ TrimSpace(accumulatedText \o ParseLineContent(line').Text) = <<>>

\* the retry gate of lines 416-442: a continuation attempt, or the limit error
AtRetryGate ==
    \/ pc' = "retry" /\ consecutiveRetryCount < cfg.MaxConsecutiveRetries
    \/ /\ pc' = "done" /\ result' = "retry limit exceeded"
       /\ consecutiveRetryCount >= cfg.MaxConsecutiveRetries

(***************************************************************************)
(* C13, as claimed: every frame with finishReason STOP for which           *)
(* trim(accumulated_text + frame text) is empty is classified              *)
(* FINISH_EMPTY_RESPONSE.                                                  *)
(***************************************************************************)
C13_AsClaimed ==
    [][EmptyStopRead => interruptionReason' = "FINISH_EMPTY_RESPONSE"]_vars

(***************************************************************************)
(* C13, amended: a frame with finishReason STOP that is not a thought      *)
(* frame and not blocked, for which trim(accumulated_text + frame text) is *)
(* empty, is classified FINISH_EMPTY_RESPONSE; a thought or blocked one is *)
(* classified FINISH_DURING_THOUGHT or BLOCK.  Either way the frame is not *)
(* forwarded and nothing is accumulated, and the attempt goes to the retry *)
(* gate: a continuation when retries are left, the limit error otherwise.  *)
(***************************************************************************)
C13_EmptyResponseRetries ==
    /\ [][EmptyStopRead =>
              /\ interruptionReason' =
                     (IF ParseLineContent(line').IsThought THEN "FINISH_DURING_THOUGHT"
                      ELSE IF IsBlockedLine(line') THEN "BLOCK"
                      ELSE "FINISH_EMPTY_RESPONSE")
              /\ sink' = sink
              /\ accumulatedText' = accumulatedText
              /\ pc' = "epilogue"]_vars
    /\ [][(pc = "epilogue" /\ interruptionReason = "FINISH_EMPTY_RESPONSE")
              => AtRetryGate]_vars

\* the stream was the single empty STOP frame and a continuation was requested
C13_Witness ==
    /\ line = DataLine(<<>>, FALSE, "STOP")
    /\ totalLinesProcessed = 1
    /\ interruptedAttempts = 1
    /\ upstreamRequests = 2
    /\ currentReader = 1
    /\ sink = <<>>

\* the line read is a formal STOP frame, neither thought nor blocked, and the
\* text accumulated with its own is not empty and does not end with [done]
IncompleteStopRead ==
    /\ LineRead
    /\ ExtractFinishReason(line') = "STOP"
    /\ ~ParseLineContent(line').IsThought
    /\ ~IsBlockedLine(line')
    /\ LET T == TrimSpace(accumulatedText \o ParseLineContent(line').Text)
       IN T # <<>> /\ ~HasSuffix(T, DoneToken)

\* the attempt is at its end with reason FINISH_INCOMPLETE
IncompleteAtEpilogue == pc = "epilogue" /\ interruptionReason = "FINISH_INCOMPLETE"

(***************************************************************************)
(* C14, as claimed: an attempt interrupted with FINISH_INCOMPLETE goes to  *)
(* the retry gate, and the interrupting frame is neither forwarded nor     *)
(* accumulated.                                                            *)
(***************************************************************************)
C14_AsClaimed ==
    [][IncompleteAtEpilogue =>
          /\ AtRetryGate
          /\ SelectSeq(sink', IsFrame) = SelectSeq(sink, IsFrame)
          /\ accumulatedText' = accumulatedText]_vars

(***************************************************************************)
(* C14, amended: a non-thought, non-blocked STOP frame whose accumulated   *)
(* text is not empty and does not end with [done] is classified            *)
(* FINISH_INCOMPLETE and is neither forwarded nor accumulated when read.   *)
(* The attempt then goes to the retry gate with sink and accumulated text  *)
(* as they were, unless it is a resumed attempt that the punctuation       *)
(* heuristic ends (streak of 3): then the session ends with success, and   *)
(* the frame is written once, as the last entry of the sink, and its text  *)
(* accumulated exactly when it carries text and that write succeeds; a     *)
(* frame without text is never written.                                    *)
(***************************************************************************)
C14_IncompleteRetries ==
    /\ [][IncompleteStopRead =>
              /\ interruptionReason' = "FINISH_INCOMPLETE"
              /\ sink' = sink
              /\ accumulatedText' = accumulatedText
              /\ ~cleanExit'
              /\ pc' = "epilogue"]_vars
    /\ [][IncompleteAtEpilogue =>
              \/ AtRetryGate /\ accumulatedText' = accumulatedText
                 /\ SelectSeq(sink', IsFrame) = SelectSeq(sink, IsFrame)
              \/ /\ cfg.EnablePunctuationHeuristic
                 /\ consecutiveRetryCount > 0
                 /\ resumePunctStreak' >= PunctStreakThreshold
                 /\ pc' = "done" /\ result' = "nil"
                 /\ IF ParseLineContent(line).Text = <<>> \/ writeFailed'
                    THEN sink' = sink /\ accumulatedText' = accumulatedText
                    ELSE /\ Len(sink') = Len(sink) + 1
                         /\ SubSeq(sink', 1, Len(sink)) = sink
                         /\ sink'[Len(sink')].id = totalLinesProcessed
                         /\ sink'[Len(sink')].line = line
                         /\ sink'[Len(sink')].written =
                                RemoveDoneTokenFromLine(line, TRUE)
                         /\ accumulatedText' =
                                accumulatedText \o ParseLineContent(line).Text]_vars

\* the heuristic ended the session on a STOP frame without text that followed
\* a forwarded "b.": the frame was not written
C14_Witness ==
    /\ HeuristicExit
    /\ interruptionReason = "FINISH_INCOMPLETE"
    /\ resumePunctStreak = PunctStreakThreshold
    /\ line = DataLine(<<>>, FALSE, "STOP")
    /\ ~writeFailed
    /\ sink[Len(sink)].line = DataLine(<<"b", ".">>, FALSE, "")
    /\ HasSuffix(accumulatedText, <<"b", ".">>)

\* the line read is a STOP frame, neither thought nor blocked, and the text
\* accumulated with its own ends with [done]
DoneStopRead ==
    /\ LineRead
    /\ ExtractFinishReason(line') = "STOP"
    /\ ~ParseLineContent(line').IsThought
    /\ ~IsBlockedLine(line')
    /\ HasSuffix(TrimSpace(accumulatedText \o ParseLineContent(line').Text), DoneToken)

(***************************************************************************)
(* C15: a non-thought, non-blocked STOP frame for which                    *)
(* trim(accumulated_text + frame text) ends with [done] is forwarded with  *)
(* the marker taken out of its text, and the attempt exits cleanly (a      *)
(* failed write of the frame ends the session with the write error         *)
(* instead); a cleanly exited attempt ends the session with success        *)
(* without another request; when no attempt was interrupted before, the    *)
(* retry count is 0 and the initial request is the only one.               *)
(***************************************************************************)
C15_DoneStopEndsSession ==
    /\ [][DoneStopRead =>
              \/ /\ ~writeFailed'
                 /\ Len(sink') = Len(sink) + 1
                 /\ SubSeq(sink', 1, Len(sink)) = sink
                 /\ sink'[Len(sink')].line = line'
                 /\ sink'[Len(sink')].written =
                        [line' EXCEPT !.text = RemoveAll(line'.text, DoneToken)]
                 /\ ~Contains(sink'[Len(sink')].written.text, DoneToken)
                 /\ interruptionReason' = ""
                 /\ cleanExit'
                 /\ pc' = "epilogue"
              \/ /\ writeFailed'
                 /\ sink' = sink
                 /\ pc' = "done"
                 /\ result' = "failed to write to output stream"]_vars
    /\ [][(pc = "epilogue" /\ cleanExit /\ interruptionReason = "") =>
              /\ pc' = "done"
              /\ result' = "nil"
              /\ sink' = sink
              /\ consecutiveRetryCount' = consecutiveRetryCount
              /\ upstreamRequests' = upstreamRequests]_vars
    /\ [](InSession /\ interruptedAttempts = 0
              /\ softFailures = 0
            => consecutiveRetryCount = 0 /\ upstreamRequests = 1)

\* the happy path: "a", then "![done]" with STOP forwarded as "!"
C15_Witness ==
    /\ result = "nil"
    /\ line = DataLine(<<"!">> \o DoneToken, FALSE, "STOP")
    /\ Len(sink) = 2
    /\ sink[2].written.text = <<"!">>
    /\ accumulatedText = <<"a", "!">> \o DoneToken
    /\ consecutiveRetryCount = 0
    /\ upstreamRequests = 1

(***************************************************************************)
(* C16, as claimed: a data frame without valid structure, not blocked, is  *)
(* classified INVALID_CANDIDATES when it is read: it is not forwarded and  *)
(* the attempt ends for the retry gate.                                    *)
(***************************************************************************)
C16_InvalidCandidatesInterrupt ==
    [][(LineRead /\ IsDataLine(line') /\ ~isValidResponseStructure(line')
            /\ ~IsBlockedLine(line')) =>
          /\ interruptionReason' = "INVALID_CANDIDATES"
          /\ sink' = sink
          /\ pc' = "epilogue"]_vars

(***************************************************************************)
(* C17: once a write of a frame to the client sink has failed, the session *)
(* has ended (with the write error from the forward step, with nil from    *)
(* the tail flush), and nothing follows: no line is read, no frame is      *)
(* written, no continuation request is made.                               *)
(***************************************************************************)
C17_WriteFailureIsTerminal ==
    /\ [](writeFailed =>
            /\ pc = "done"
            /\ result \in {"failed to write to output stream", "nil",
                            "retry limit exceeded", "non-retryable error",
                            "retry request validation failed"}
            /\ (result = "failed to write to output stream" =>
                   \A i \in 1..Len(sink) : sink[i].id # totalLinesProcessed))
    /\ [](result = "failed to write to output stream" => writeFailed)
    /\ [][writeFailed =>
              /\ sink' = sink
              /\ totalLinesProcessed' = totalLinesProcessed
              /\ upstreamRequests' = upstreamRequests
              /\ consecutiveRetryCount' = consecutiveRetryCount]_vars

\* the write of a frame failed in a resumed attempt, after frames had gone out
C17_Witness ==
    /\ writeFailed
    /\ result = "failed to write to output stream"
    /\ consecutiveRetryCount >= 1
    /\ Len(sink) >= 1
    /\ totalLinesProcessed < lineBudget

(***************************************************************************)
(* C18: for one streaming request the client never receives both error     *)
(* forms.  A JSON HTTP error response is produced only before the 200      *)
(* status and the SSE headers are written: a request answered with one has *)
(* no SSE stream and nothing in the sink.  Once the stream has started no  *)
(* JSON error is produced, and a session that ends with an error while the *)
(* client can still be written to ends with an "event: error" frame.       *)
(***************************************************************************)
C18_OneErrorForm ==
    /\ jsonError # 0 => (~sseStarted /\ sink = <<>> /\ pc = "rejected")
    /\ sseStarted => (jsonError = 0 /\ InSession)
    /\ sink # <<>> => sseStarted
    /\ pc = "rejected" => jsonError # 0
    /\ (SessionEnded /\ result # "nil" /\ ~writeFailed) =>
           (sink # <<>> /\ IsError(sink[Len(sink)]))

\* the handler has returned from a stream that ended with an error event after
\* forwarded frames
C18_Witness ==
    /\ sseStarted /\ bodyClosed
    /\ SessionEnded /\ result = "retry limit exceeded"
    /\ Len(sink) >= 2
    /\ IsError(sink[Len(sink)])
    /\ jsonError = 0

\* the session ended on an unrecoverable interruption
UnrecoverableEnd ==
    SessionEnded /\ result \in {"retry limit exceeded", "non-retryable error"}

(***************************************************************************)
(* C19: in any session at most one "event: error" frame is written to the  *)
(* client and nothing is written to the client after it; a session that    *)
(* ends in clean exit writes none; a session that ends on the retry limit  *)
(* or on a hard-fail continuation status writes exactly one, which is the  *)
(* last entry of the sink when the client takes it.                        *)
(***************************************************************************)
C19_SingleTerminalErrorFrame ==
    /\ [](/\ errorEventWrites <= 1
          /\ Len(SinkErrors) <= errorEventWrites
          /\ (errorEventWrites = 1 => SessionEnded /\ result # "nil")
          /\ (SinkErrors # <<>> => IsError(sink[Len(sink)]))
          /\ (SessionEnded /\ result = "nil" =>
                  errorEventWrites = 0 /\ SinkErrors = <<>>)
          /\ (UnrecoverableEnd =>
                  /\ errorEventWrites = 1
                  /\ (~writeFailed =>
                         Len(SinkErrors) = 1 /\ IsError(sink[Len(sink)]))))
    /\ [][errorEventWrites = 1 =>
              sink' = sink /\ errorEventWrites' = errorEventWrites]_vars

\* a hard-fail continuation status after forwarded frames: one error event, last
C19_Witness ==
    /\ SessionEnded
    /\ result = "non-retryable error"
    /\ errorEventWrites = 1
    /\ Len(SinkFrames) >= 1
    /\ Len(SinkErrors) = 1
    /\ IsError(sink[Len(sink)])
    /\ sink[Len(sink)].code \in nonRetryableStatuses

\* the request has a non-empty contents array
HasContents(body) == "contents" \in DOMAIN body /\ Len(body.contents) > 0

\* where the claim puts the two new entries: after the last entry with role
\* "user", or after the last entry when there is none
ClaimedSpliceIndex(contents) ==
    LET users == {i \in 1..Len(contents) :
                     "role" \in DOMAIN contents[i] /\ contents[i].role = "user"}
    IN IF users = {} THEN Len(contents)
       ELSE CHOOSE i \in users : \A k \in users : k <= i

\* rewritten is original with the two turns spliced in after the claimed index
\* and every other field as it was
IsSpliceOf(rewritten, original, text) ==
    LET contents == original.contents
        n == Len(contents)
        i == ClaimedSpliceIndex(contents)
        new == rewritten.contents
    IN /\ DOMAIN rewritten = DOMAIN original
       /\ \A k \in DOMAIN original \ {"contents"} : rewritten[k] = original[k]
       /\ Len(new) = n + 2
       /\ \A k \in 1..i : new[k] = contents[k]
       /\ new[i + 1] = [role |-> "model", parts |-> text]
       /\ new[i + 2] = [role |-> "user", parts |-> ContinuePrompt]
       /\ \A k \in (i + 1)..n : new[k + 2] = contents[k]

(***************************************************************************)
(* C20: for every original request with non-empty contents of length n,    *)
(* BuildRetryRequestBody returns a body whose contents has length n+2 and  *)
(* is contents up to the last entry with role "user" (the whole of it when *)
(* no entry has that role), then the model turn with the accumulated text  *)
(* and the continuation user turn, then the rest of contents; the original *)
(* entries keep their order and every other top-level field is unchanged.  *)
(* It holds of the function at every request and accumulated text the      *)
(* session reaches, and of every body a continuation was built with.       *)
(***************************************************************************)
C20_RetryBodyIsSplice ==
    /\ [](HasContents(originalRequestBody) =>
            /\ BuildRetryRequestBody(originalRequestBody, accumulatedText).err = ""
            /\ IsSpliceOf(BuildRetryRequestBody(originalRequestBody,
                                                accumulatedText).body,
                          originalRequestBody, accumulatedText))
    /\ [](~HasContents(originalRequestBody) =>
            BuildRetryRequestBody(originalRequestBody, accumulatedText).err # "")
    /\ [][retryBody' # retryBody =>
              /\ pc = "retry"
              /\ (HasContents(originalRequestBody) =>
                     /\ retryBody'.err = ""
                     /\ IsSpliceOf(retryBody'.body, originalRequestBody,
                                   accumulatedText))]_vars

\* a continuation built from a conversation whose last user entry is in the
\* middle, with text to continue from
C20_Witness ==
    /\ retryBody.err = ""
    /\ Len(originalRequestBody.contents) = 3
    /\ lastUserIndex(originalRequestBody.contents) = 2
    /\ Len(retryBody.body.contents) = 5
    /\ retryBody.body.contents[3] = ModelTurn(<<"a">>)
    /\ retryBody.body.contents[4] = ContinuationTurn
    /\ retryBody.body.contents[5] = originalRequestBody.contents[3]

\* a call of BuildRetryRequestBody is made by the step
RewriteCalled == pc = "retry" /\ pc' # "retry"

\* the accumulated text a rewritten body carries in its model turn
TextOfRewrite(rewritten) ==
    rewritten.body.contents[ClaimedSpliceIndex(originalRequestBody.contents) + 1].parts

(***************************************************************************)
(* C21: BuildRetryRequestBody is repeatable.  A call leaves the original   *)
(* request body as it was: read from memory after the call, its contents   *)
(* and every other field are what they were before.  Two calls on the same *)
(* request with the same accumulated text return structurally equal        *)
(* bodies: equal as each was when returned, and equal as they are read     *)
(* once both calls have been made.  What a call returns is the body        *)
(* BuildRetryRequestBody gives on the values.                              *)
(***************************************************************************)
C21_RewriteRepeatable ==
    /\ [][ReadBody(heap', 1) = ReadBody(heap, 1)]_vars
    /\ [](\A i, j \in 1..Len(rewrites) :
              rewrites[i].text = rewrites[j].text =>
                  /\ rewrites[i].result.err = ""
                  /\ rewrites[i].result = rewrites[j].result
                  /\ ReadBody(heap, rewrites[i].map) = ReadBody(heap, rewrites[j].map))
    /\ [](\A i \in 1..Len(rewrites) :
              rewrites[i].result =
                  BuildRetryRequestBody(ReadBody(heap, 1), rewrites[i].text))

\* two calls with the same text on a conversation without user entry whose
\* array has room for the two turns: both results lie in the array of the
\* original contents, behind its entries, in two maps
C21_Witness ==
    /\ Len(rewrites) = 2
    /\ rewrites[1].text = rewrites[2].text
    /\ rewrites[1].map # rewrites[2].map
    /\ heap.maps[rewrites[1].map].contents.array = heap.maps[1].contents.array
    /\ heap.maps[rewrites[2].map].contents.array = heap.maps[1].contents.array
    /\ heap.maps[1].contents.len + 2 = heap.maps[rewrites[2].map].contents.len

\* the entries of a contents array that are the synthesized model turn for text
ModelTurnsFor(contents, text) ==
    {k \in 1..Len(contents) : contents[k] = [role |-> "model", parts |-> text]}

\* the entries that are the continuation user message
ContinuationTurnsIn(contents) ==
    {k \in 1..Len(contents) : contents[k] = [role |-> "user", parts |-> ContinuePrompt]}

(***************************************************************************)
(* C22: every continuation request is built from the original request and  *)
(* not from the previous continuation.  However many retries came before,  *)
(* its contents has len(original contents) + 2 entries, exactly one of     *)
(* them the synthesized model turn, whose text is the accumulated text at  *)
(* the time of the retry, all the formal text forwarded so far, and        *)
(* exactly one the continuation user message.                              *)
(***************************************************************************)
C22_ContinuationFromOriginal ==
    /\ [][(RewriteCalled /\ HasContents(originalRequestBody)) =>
              /\ retryBody'.err = ""
              /\ Len(retryBody'.body.contents) = Len(originalRequestBody.contents) + 2
              /\ Cardinality(ModelTurnsFor(retryBody'.body.contents,
                                           accumulatedText)) = 1
              /\ Cardinality(ContinuationTurnsIn(retryBody'.body.contents)) = 1
              /\ accumulatedText = FormalTextRead(SinkFrames)
              /\ retryBody' = BuildRetryRequestBody(originalRequestBody,
                                                    accumulatedText)]_vars
    /\ [](retryBody.err = "" =>
              Len(retryBody.body.contents) = Len(originalRequestBody.contents) + 2)

\* the second continuation of a session, built after more text was forwarded
C22_Witness ==
    /\ consecutiveRetryCount = 2
    /\ softFailures = 0
    /\ retryBody.err = ""
    /\ TextOfRewrite(retryBody) = <<"a", "a">>
    /\ Len(originalRequestBody.contents) = 3
    /\ Len(retryBody.body.contents) = 5

\* the parts array the claim reads under an instruction key: the items when the
\* value is a mapping with a parts array, nothing otherwise
PartsGiven(body, key) ==
    IF key \in DOMAIN body /\ body[key].t = "map"
       /\ "parts" \in DOMAIN body[key].fields
       /\ body[key].fields["parts"].t = "array"
    THEN body[key].fields["parts"].items
    ELSE <<>>

\* systemInstruction is missing, null or not a mapping
NoCamelCaseMapping(body) ==
    "systemInstruction" \notin DOMAIN body \/ body["systemInstruction"].t # "map"

(***************************************************************************)
(* C23: after InjectSystemPrompt the body has no system_instruction key,   *)
(* and systemInstruction.parts is the parts of system_instruction (when it *)
(* was a mapping with a parts array), then the parts systemInstruction had *)
(* (when an array), then the injected [done] instruction: one part is      *)
(* appended, as the last element.  When systemInstruction was missing,     *)
(* null or not a mapping and no system_instruction was given, the result   *)
(* is the single injected part alone.  The other keys of the body are as   *)
(* they were.                                                              *)
(***************************************************************************)
C23_InjectedPartIsLast ==
    promptInjected =>
        /\ "system_instruction" \notin DOMAIN requestBody
        /\ "systemInstruction" \in DOMAIN requestBody
        /\ requestBody["systemInstruction"].t = "map"
        /\ "parts" \in DOMAIN requestBody["systemInstruction"].fields
        /\ requestBody["systemInstruction"].fields["parts"] =
               JArray(PartsGiven(receivedBody, "system_instruction")
                      \o PartsGiven(receivedBody, "systemInstruction")
                      \o <<newSystemPromptPart>>)
        /\ ((NoCamelCaseMapping(receivedBody)
                /\ "system_instruction" \notin DOMAIN receivedBody) =>
               requestBody["systemInstruction"] =
                   JMap([parts |-> JArray(<<newSystemPromptPart>>)]))
        /\ \A k \in DOMAIN receivedBody \ {"system_instruction", "systemInstruction"} :
               k \in DOMAIN requestBody /\ requestBody[k] = receivedBody[k]

\* both keys held parts: the merged array ends with the injected part
C23_Witness ==
    /\ promptInjected
    /\ Len(PartsGiven(receivedBody, "system_instruction")) = 2
    /\ Len(PartsGiven(receivedBody, "systemInstruction")) = 1
    /\ Len(requestBody["systemInstruction"].fields["parts"].items) = 4
    /\ requestBody["systemInstruction"].fields["parts"].items[1] =
           InstructionPart("system_instruction", 1)
    /\ requestBody["systemInstruction"].fields["parts"].items[3] =
           InstructionPart("systemInstruction", 1)
    /\ requestBody["systemInstruction"].fields["parts"].items[4] = newSystemPromptPart

RECURSIVE AdmittedBetween(_, _, _)
\* the returns of Wait for key k recorded at a time in from..to
AdmittedBetween(k, from, to) ==
    IF from > to THEN 0
    ELSE (IF from >= 0 THEN admitted[k][from] ELSE 0) + AdmittedBetween(k, from + 1, to)

(***************************************************************************)
(* C26: under any interleaving of concurrent callers of Wait, for every    *)
(* key and every instant t, the calls for the key admitted with an         *)
(* admission time in the window of length window that ends at t, both ends *)
(* included, are at most limit.  It is stated at t = now in every state:   *)
(* an admission is recorded at the time it is made, so the admissions in   *)
(* the window ending at t are complete in the last state with now = t.     *)
(***************************************************************************)
C26_WindowHoldsAtMostLimit ==
    \A k \in Keys :
        /\ AdmittedBetween(k, now - window, now) <= limit
        /\ Len(ValidTimestamps(clients[k], now - window)) <= limit
        /\ \A t \in 0..MaxTime : t > now => admitted[k][t] = 0

\* a key at its limit of 2 with admissions at two times in the window, and a
\* caller asleep for it while two callers were in Wait
C26_Witness ==
    /\ limit = 2
    /\ admitted["A"][now] = 1
    /\ now >= 1
    /\ admitted["A"][now - 1] = 1
    /\ \E c \in BagToSet(callers) :
           c.pc = "sleeping" /\ c.key = "A" /\ c.at = now /\ c.until > now

\* a caller is asleep for key a, its sleep not yet over
SleepsOn(a) ==
    \E c \in BagToSet(callers) : c.pc = "sleeping" /\ c.key = a /\ now < c.until

\* a caller for key b is at the Lock of Wait and b is under its limit
CanBeAdmitted(b) ==
    /\ AtLock(b) \in BagToSet(callers)
    /\ Len(ValidTimestamps(clients[b], now - window)) < limit

\* the step admits a call for key b
Admits(b) == admitted'[b][now] = admitted[b][now] + 1

(***************************************************************************)
(* C27: Wait never holds the mutex while sleeping.  While a caller for key *)
(* A sleeps because A is at its limit, the mutex is unlocked, so a caller  *)
(* for another key B that is under its limit can take it and be admitted   *)
(* before the sleep ends; and an admission for B changes the timestamp     *)
(* list of B only.                                                         *)
(***************************************************************************)
C27_NoSleepUnderMutex ==
    /\ [](\A c \in BagToSet(callers) : c.pc = "sleeping" => ~c.holds)
    /\ [](mutex = "locked" => \E c \in BagToSet(callers) : c.pc = "panicked")
    /\ [](\A a, b \in Keys :
             (a # b /\ SleepsOn(a) /\ CanBeAdmitted(b)) =>
                 /\ mutex = "unlocked"
                 /\ ENABLED Enter(AtLock(b)))
    /\ [][\A b \in Keys :
             Admits(b) =>
                 /\ clients'[b] # clients[b]
                 /\ \A a \in Keys \ {b} :
                        clients'[a] = clients[a] /\ admitted'[a] = admitted[a]]_vars

\* a call for B was admitted while a caller for A was in its sleep
C27_Witness ==
    /\ \E c \in BagToSet(callers) :
           /\ c.pc = "sleeping" /\ c.key = "A"
           /\ c.at < now /\ now < c.until
    /\ admitted["B"][now] = 1
    /\ Len(clients["A"]) = limit

\* the step receives the response, or the failure, of a continuation request
ContinuationAnswered == upstreamRequests' = upstreamRequests + 1 /\ pc = "retry"

\* the session has ended on a hard-fail status
HardFailed == result = "non-retryable error"

(***************************************************************************)
(* C24: when a continuation request returns a status in {400, 401, 403,    *)
(* 404, 429}, the supervisor writes the upstream error body as one         *)
(* "event: error" frame and ends the session with failure, also when the   *)
(* retry count is below the maximum; after it no continuation request is   *)
(* issued and nothing more happens in the session.                         *)
(***************************************************************************)
C24_HardFailTerminates ==
    /\ [][(ContinuationAnswered /\ lastStatus' \in {400, 401, 403, 404, 429}) =>
              /\ pc' = "done"
              /\ result' = "non-retryable error"
              /\ errorEventWrites' = errorEventWrites + 1
              /\ softFailures' = softFailures
              /\ IF writeFailed' THEN sink' = sink
                 ELSE /\ Len(sink') = Len(sink) + 1
                      /\ SubSeq(sink', 1, Len(sink)) = sink
                      /\ IsError(sink'[Len(sink')])
                      /\ sink'[Len(sink')].code = lastStatus'
                      /\ sink'[Len(sink')].status = "upstream error body"]_vars
    /\ [](HardFailed <=> (SessionEnded /\ lastStatus \in nonRetryableStatuses))
    /\ [][HardFailed =>
              /\ upstreamRequests' = upstreamRequests
              /\ consecutiveRetryCount' = consecutiveRetryCount
              /\ lastStatus' = lastStatus
              /\ sink' = sink
              /\ pc' = "done"]_vars

\* a 429 on the first of two allowed continuations, after forwarded text
C24_Witness ==
    /\ HardFailed
    /\ lastStatus = 429
    /\ consecutiveRetryCount = 1
    /\ cfg.MaxConsecutiveRetries = 2
    /\ upstreamRequests = 2
    /\ Len(sink) = 2
    /\ IsFrame(sink[1])
    /\ sink[2].code = 429

\* the step is a continuation request that failed softly
SoftFailed == softFailures' = softFailures + 1

(***************************************************************************)
(* C25: the retry count grows by exactly one with every continuation       *)
(* request issued, whether it is answered 200, answered another status or  *)
(* fails in the network, and it never grows otherwise when the requests    *)
(* can be sent; a soft failure (a network error or a status that is not    *)
(* 200 and not a hard failure) writes nothing, does not end the session    *)
(* and restarts the attempt loop, so that the count is always the number   *)
(* of continuation requests issued.                                        *)
(***************************************************************************)
C25_OneIncrementPerRequest ==
    /\ [][upstreamRequests' # upstreamRequests =>
              /\ upstreamRequests' = upstreamRequests + 1
              /\ \/ pc = "handler" /\ consecutiveRetryCount' = consecutiveRetryCount
                 \/ pc = "retry" /\ consecutiveRetryCount' = consecutiveRetryCount + 1]_vars
    /\ [][(consecutiveRetryCount' # consecutiveRetryCount /\ RequestIsSent) =>
              upstreamRequests' = upstreamRequests + 1]_vars
    /\ [][SoftFailed =>
              /\ ContinuationAnswered
              /\ lastStatus' \notin {StatusOK, 400, 401, 403, 404, 429}
              /\ pc' = "reading"
              /\ sink' = sink
              /\ result' = result
              /\ errorEventWrites' = errorEventWrites]_vars
    /\ []((InSession /\ RequestIsSent) => consecutiveRetryCount = upstreamRequests - 1)

\* a soft failure of the first continuation, then a second continuation sent
C25_Witness ==
    /\ softFailures = 1
    /\ lastStatus = StatusOK
    /\ upstreamRequests = 3
    /\ consecutiveRetryCount = 2
    /\ pc = "reading"

\* the interruption tests of the specification, in its order, that the frame
\* l meets after the text acc
TestsMet(l, acc) ==
    LET finish == ExtractFinishReason(l)
        content == ParseLineContent(l)
        trimmedText == TrimSpace(acc \o content.Text)
    IN  SelectSeq(
            << <<finish # "" /\ content.IsThought, "FINISH_DURING_THOUGHT">>,
               <<IsBlockedLine(l), "BLOCK">>,
               <<IsDataLine(l) /\ ~isValidResponseStructure(l), "INVALID_CANDIDATES">>,
               <<finish = "STOP" /\ trimmedText = <<>>, "FINISH_EMPTY_RESPONSE">>,
               <<finish = "STOP" /\ trimmedText # <<>>
                     /\ ~HasSuffix(trimmedText, DoneToken), "FINISH_INCOMPLETE">>,
               <<finish \notin {"", "STOP", "MAX_TOKENS"}, "FINISH_ABNORMAL">> >>,
            LAMBDA test : test[1])

(***************************************************************************)
(* C28: a frame that meets several interruption tests is recorded with the *)
(* first of them in the order FINISH_DURING_THOUGHT (a finish reason on a   *)
(* thought frame, also while thoughts are swallowed), BLOCK,                *)
(* INVALID_CANDIDATES, FINISH_EMPTY_RESPONSE and FINISH_INCOMPLETE for      *)
(* STOP, FINISH_ABNORMAL; the frame is not written and the attempt is       *)
(* interrupted.  A blocked frame with STOP whose text ends the response     *)
(* with the marker is a BLOCK, not a clean exit.                            *)
(***************************************************************************)
C28_FirstTestInOrderWins ==
    [][(LineRead /\ Len(TestsMet(line', accumulatedText)) >= 2) =>
          /\ interruptionReason' = TestsMet(line', accumulatedText)[1][2]
          /\ ~cleanExit'
          /\ sink' = sink
          /\ accumulatedText' = accumulatedText
          /\ pc' = "epilogue"]_vars

\* the blocked STOP frame with "![done]" after "a" is recorded as BLOCK
C28_Witness ==
    /\ line = [DataLine(<<"!">> \o DoneToken, FALSE, "STOP") EXCEPT !.block = TRUE]
    /\ interruptionReason = "BLOCK"
    /\ accumulatedText = <<"a">>
    /\ ~cleanExit
    /\ result # "nil"
    /\ pc = "epilogue"

\* the step is the end of a resumed attempt the heuristic looks at
ResumedAttemptEnds ==
    /\ pc = "epilogue" /\ pc' # "epilogue"
    /\ cfg.EnablePunctuationHeuristic
    /\ ~cleanExit
    /\ consecutiveRetryCount > 0

\* the attempt's last formal text ends with sentence punctuation
PunctEnded ==
    attemptLastFormalText # <<>> /\ endsWithSentencePunctuation(attemptLastFormalText)

(***************************************************************************)
(* C29: the streak counts resumed attempts in a row.  A resumed attempt    *)
(* (retry count above 0, heuristic enabled, no clean exit) without formal  *)
(* text, or whose last formal text does not end with sentence punctuation, *)
(* sets the streak to 0 and does not end the session with success; one     *)
(* that ends with punctuation adds 1.  So the streak is the number of      *)
(* punctuation-ended resumed attempts since the last other one, and the    *)
(* heuristic ends a session only when that number is 3, however many       *)
(* punctuation-ended resumed attempts the session has had in all.          *)
(***************************************************************************)
C29_StreakCountsConsecutive ==
    /\ [][(ResumedAttemptEnds /\ ~PunctEnded) =>
              /\ resumePunctStreak' = 0
              /\ result' # "nil"]_vars
    /\ [][(ResumedAttemptEnds /\ PunctEnded) =>
              resumePunctStreak' = resumePunctStreak + 1]_vars
    /\ [](cfg.EnablePunctuationHeuristic =>
              /\ resumePunctStreak = punctEndedResumes
              /\ resumePunctStreak <= punctEndedTotal)
    /\ [](HeuristicExit => punctEndedResumes = PunctStreakThreshold)

\* three punctuation-ended resumed attempts with another between them: the
\* session goes on to the retry limit
C29_Witness ==
    /\ punctEndedTotal = PunctStreakThreshold
    /\ resumePunctStreak < PunctStreakThreshold
    /\ cfg.EnablePunctuationHeuristic
    /\ consecutiveRetryCount = PunctStreakThreshold + 1
    /\ result = "retry limit exceeded"

\* the ways a session ends
SessionOutcomes ==
    {"nil", "failed to write to output stream", "non-retryable error",
     "retry request validation failed", "retry limit exceeded"}

(***************************************************************************)
(* C30: with upstream responses that end and continuation calls that       *)
(* return, every session ends: with clean exit, a sink write failure, a    *)
(* hard-fail error, a rewrite failure or the retry-limit error (a request  *)
(* the handler turns away starts no session).  At every moment the attempt *)
(* loop has begun at most max_retries + 1 iterations and at most           *)
(* 1 + max_retries upstream requests have been issued.                     *)
(***************************************************************************)
C30_SessionTerminates ==
    /\ <>(pc = "rejected" \/ (SessionEnded /\ result \in SessionOutcomes))
    /\ [](/\ attemptsStarted <= cfg.MaxConsecutiveRetries + 1
          /\ upstreamRequests <= 1 + cfg.MaxConsecutiveRetries
          /\ consecutiveRetryCount <= cfg.MaxConsecutiveRetries
          /\ (pc = "reading" => attemptsStarted = consecutiveRetryCount + 1))

\* a session that used every iteration and every request it may, and ended
C30_Witness ==
    /\ SessionEnded
    /\ result = "retry limit exceeded"
    /\ cfg.MaxConsecutiveRetries = MaxRetries
    /\ attemptsStarted = MaxRetries + 1
    /\ upstreamRequests = 1 + MaxRetries
    /\ softFailures = 1

\* the request does not pass the handler's validation: not JSON, no entry in
\* contents, or more estimated tokens than the model's cap
FailsValidation ==
    \/ requestBytes = "invalid"
    \/ /\ requestBytes = "valid"
       /\ \/ "contents" \notin DOMAIN originalRequestBody
          \/ originalRequestBody.contents = <<>>
          \/ /\ tokenCap # NoTokenCap
             /\ Len(originalRequestBody.contents) > tokenCap

(***************************************************************************)
(* C31: HandleStreamingPost issues the upstream request only after the     *)
(* validation of the request has passed.  For a body that is not valid     *)
(* JSON, has no non-empty contents array, or whose token estimate is above *)
(* the cap of its model, no upstream request is ever made and no SSE byte  *)
(* is written, and the handler's answer is a JSON error: 400, or the       *)
(* configured token-limit code for the cap.                                *)
(***************************************************************************)
C31_ValidatedBeforeUpstream ==
    /\ FailsValidation =>
           /\ upstreamRequests = 0
           /\ ~sseStarted
           /\ sink = <<>>
           /\ pc \in {"handler", "rejected"}
           /\ pc = "rejected" =>
                  jsonError = (IF /\ requestBytes = "valid"
                                  /\ "contents" \in DOMAIN originalRequestBody
                                  /\ originalRequestBody.contents # <<>>
                               THEN TokenLimitExceededCode
                               ELSE InvalidArgumentCode)
    /\ upstreamRequests > 0 =>
           /\ requestBytes = "valid"
           /\ ~FailsValidation

\* a conversation of three entries turned away under a cap of two
C31_Witness ==
    /\ pc = "rejected"
    /\ jsonError = TokenLimitExceededCode
    /\ tokenCap = 2
    /\ requestBytes = "valid"
    /\ Len(originalRequestBody.contents) = 3
    /\ upstreamRequests = 0

(***************************************************************************)
(* C32: in every state the punctuation streak is at most the retry count;  *)
(* no step of the first attempt (retry count 0) changes the streak; so the *)
(* punctuation heuristic ends a session only at a retry count of 3 or      *)
(* more, after at least three continuation requests have been issued.      *)
(***************************************************************************)
C32_StreakWithinRetryCount ==
    /\ [](resumePunctStreak <= consecutiveRetryCount)
    /\ [][consecutiveRetryCount = 0 => resumePunctStreak' = resumePunctStreak]_vars
    /\ [](HeuristicExit =>
              /\ consecutiveRetryCount >= PunctStreakThreshold
              /\ upstreamRequests >= 1 + PunctStreakThreshold)

\* the heuristic's exit at the earliest moment: the third continuation
C32_Witness ==
    /\ HeuristicExit
    /\ resumePunctStreak = PunctStreakThreshold
    /\ consecutiveRetryCount = PunctStreakThreshold
    /\ upstreamRequests = 1 + PunctStreakThreshold
    /\ softFailures = 0

\* a line is read in an attempt that restarted on the reader of an
\* interrupted attempt: the last continuation failed softly
ReadAfterInterruption ==
    /\ LineRead
    /\ lastStatus \notin {NoStatus, StatusOK}

(***************************************************************************)
(* C33, as claimed: once an attempt has been interrupted, no frame of its  *)
(* response that follows the interrupting frame is forwarded to the        *)
(* client, also when the continuation request fails softly and the attempt *)
(* loop restarts before a new reader is installed.                         *)
(***************************************************************************)
C33_NothingForwardedAfterInterruption ==
    [][ReadAfterInterruption => sink' = sink]_vars

(***************************************************************************)
(* The line producers on their own.  Every iteration of the attempt loop   *)
(* makes a channel of ChannelCapacity lines and starts SSELineIterator on  *)
(* currentReader (retry.go 223-224); the loop ranges over the channel      *)
(* (232) and leaves it at an interruption, a clean exit or a write error   *)
(* (305-307, 313-315, 329-339).  A producer reads a line of its reader,    *)
(* sends it into its channel, waiting while the channel is full, and       *)
(* closes the channel at the end of the body.  Lines are counted, their    *)
(* contents decide what the supervisor does next and are left open here.   *)
(***************************************************************************)
NewProducer(r) == [reader |-> r, ch |-> 0, held |-> FALSE, done |-> FALSE]

\* retry.go 442: one increment before every iteration after the first
ProducerRetryCount == Len(producers) - 1

\* a body that outlasts the channel: one line received, ChannelCapacity
\* buffered, one held by the producer
LongBody == ChannelCapacity + 2

\* responses of a few lines under every retry budget
InitShortBodies ==
    /\ bodyLines \in [Bodies -> 0..MaxBodyLines]
    /\ producerRetries \in 0..MaxProducerRetries

\* a long response, and no continuation
InitLongBody ==
    /\ bodyLines = [b \in Bodies |-> IF b = 0 THEN LongBody ELSE 0]
    /\ producerRetries = 0

InitProducers ==
    /\ SessionIdle
    /\ InjectIdle
    /\ RewriteIdle
    /\ LimiterIdle
    /\ InitShortBodies \/ InitLongBody
    /\ producers = <<>>
    /\ supervisor = "head"
    /\ readerInUse = 0
    /\ bodiesOpened = 1

outsideProducers == <<sessionVars, injectVars, limiterVars, rewriteVars>>

\* retry.go 213-224: the head of the attempt loop
StartProducer ==
    /\ supervisor = "head"
    /\ producers' = Append(producers, NewProducer(readerInUse))
    /\ supervisor' = "ranging"
    /\ UNCHANGED <<outsideProducers, bodyLines, readerInUse, bodiesOpened, producerRetries>>

\* SSELineIterator: the next line of the reader is read and sent; with the
\* channel full the producer holds the line and waits in the send
Produce(p) ==
    /\ ~producers[p].done
    /\ ~producers[p].held
    /\ bodyLines[producers[p].reader] > 0
    /\ bodyLines' = [bodyLines EXCEPT ![producers[p].reader] = @ - 1]
    /\ producers' = [producers EXCEPT ![p] =
                        IF @.ch < ChannelCapacity
                        THEN [@ EXCEPT !.ch = @ + 1]
                        ELSE [@ EXCEPT !.held = TRUE]]
    /\ UNCHANGED <<outsideProducers, supervisor, readerInUse, bodiesOpened, producerRetries>>

\* SSELineIterator: the send that waited goes through
SendHeld(p) ==
    /\ producers[p].held
    /\ producers[p].ch < ChannelCapacity
    /\ producers' = [producers EXCEPT ![p] = [@ EXCEPT !.ch = @ + 1, !.held = FALSE]]
    /\ UNCHANGED <<outsideProducers, bodyLines, supervisor, readerInUse, bodiesOpened, producerRetries>>

\* SSELineIterator: the reader is at its end, the channel is closed
CloseChannel(p) ==
    /\ ~producers[p].done
    /\ ~producers[p].held
    /\ bodyLines[producers[p].reader] = 0
    /\ producers' = [producers EXCEPT ![p] = [@ EXCEPT !.done = TRUE]]
    /\ UNCHANGED <<outsideProducers, bodyLines, supervisor, readerInUse, bodiesOpened, producerRetries>>

\* retry.go 232-340: the loop receives a line of the channel of this
\* iteration; the line is forwarded and the loop goes on, or the loop is
\* left: "gate" at an interruption (305-307), "returned" at a write error
\* (313-315) or a clean exit the epilogue returns from (329-339, 400)
ReceiveLine(after) ==
    /\ supervisor = "ranging"
    /\ producers[Len(producers)].ch > 0
    /\ producers' = [producers EXCEPT ![Len(producers)] = [@ EXCEPT !.ch = @ - 1]]
    /\ supervisor' = after
    /\ UNCHANGED <<outsideProducers, bodyLines, readerInUse, bodiesOpened, producerRetries>>

\* retry.go 232, 342-410: the channel is closed and empty, the range ends;
\* the epilogue finds DROP, or the heuristic of a resumed attempt returns
RangeEnds(after) ==
    /\ supervisor = "ranging"
    /\ producers[Len(producers)].ch = 0
    /\ producers[Len(producers)].done
    /\ after = "returned" => ProducerRetryCount > 0
    /\ supervisor' = after
    /\ UNCHANGED <<outsideProducers, bodyLines, producers, readerInUse, bodiesOpened, producerRetries>>

\* retry.go 416-439: the retry limit is reached
GateCloses ==
    /\ supervisor = "gate"
    /\ ProducerRetryCount >= producerRetries
    /\ supervisor' = "returned"
    /\ UNCHANGED <<outsideProducers, bodyLines, producers, readerInUse, bodiesOpened, producerRetries>>

\* retry.go 442-543: a continuation.  "ok": status 200, the new body becomes
\* currentReader (543); "soft": the request is not made, fails or is
\* answered by a status that is retried (487, 509, 537), the loop goes on
\* with the reader it has; "hard": a status that is not retried (514-530)
Continuation(answer) ==
    /\ supervisor = "gate"
    /\ ProducerRetryCount < producerRetries
    /\ CASE answer = "ok" ->
              /\ readerInUse' = bodiesOpened
              /\ bodiesOpened' = bodiesOpened + 1
              /\ supervisor' = "head"
         [] answer = "soft" ->
              /\ supervisor' = "head"
              /\ UNCHANGED <<readerInUse, bodiesOpened>>
         [] answer = "hard" ->
              /\ supervisor' = "returned"
              /\ UNCHANGED <<readerInUse, bodiesOpened>>
    /\ UNCHANGED <<outsideProducers, bodyLines, producers, producerRetries>>

\* proxy.go 282: the handler closes the initial response body when the
\* supervisor has returned; what it had still to deliver is not read
HandlerClosesBody ==
    /\ supervisor = "returned"
    /\ supervisor' = "closed"
    /\ bodyLines' = [bodyLines EXCEPT ![0] = 0]
    /\ UNCHANGED <<outsideProducers, producers, readerInUse, bodiesOpened, producerRetries>>

NextProducers ==
    \/ StartProducer
    \/ \E p \in DOMAIN producers : Produce(p)
    \/ \E p \in DOMAIN producers : SendHeld(p)
    \/ \E p \in DOMAIN producers : CloseChannel(p)
    \/ \E after \in {"ranging", "gate", "returned"} : ReceiveLine(after)
    \/ \E after \in {"gate", "returned"} : RangeEnds(after)
    \/ GateCloses
    \/ \E answer \in {"ok", "soft", "hard"} : Continuation(answer)
    \/ HandlerClosesBody

SpecProducers == InitProducers /\ [][NextProducers]_vars

\* the supervisor no longer receives from the channel of producer p
Abandoned(p) ==
    /\ p \in DOMAIN producers
    /\ p < Len(producers) \/ supervisor \in {"gate", "head", "returned", "closed"}

\* producer p has a read of its reader ahead of it: it has not closed its
\* channel and does not wait in a send
MayStillRead(p) == ~producers[p].done /\ ~producers[p].held

(***************************************************************************)
(* C34, as claimed: at most one line producer reads from an upstream       *)
(* reader at a time; no producer is started on a reader from which a       *)
(* producer of an earlier attempt may still be reading.                    *)
(***************************************************************************)
C34_OneProducerPerReader ==
    \A p, q \in DOMAIN producers :
        (p < q /\ producers[p].reader = producers[q].reader)
            => ~(MayStillRead(p) /\ MayStillRead(q))


(***************************************************************************)
(* The line producers with progress.  Goroutines that can run are run: a   *)
(* producer that can read or send does so, the upstream delivers what the  *)
(* body has still to deliver, a continuation call returns, and the         *)
(* supervisor and the handler take their next step.  Every behaviour of    *)
(* the producers is finite, so fairness of the whole step relation gives   *)
(* each goroutine its steps.                                               *)
(***************************************************************************)
SpecProducersFair == InitProducers /\ [][NextProducers]_vars /\ WF_vars(NextProducers)

\* producer p has closed its channel and returned
ProducerDone(p) == p \in DOMAIN producers /\ producers[p].done

(***************************************************************************)
(* C35, as claimed: the producer of an attempt that the supervisor has     *)
(* left, by interruption or clean exit, eventually terminates, however     *)
(* many lines its stream still holds; it does not stay blocked on the      *)
(* channel the supervisor no longer drains.                                *)
(***************************************************************************)
C35_AbandonedProducerTerminates ==
    \A p \in 1..(MaxProducerRetries + 1) : Abandoned(p) ~> ProducerDone(p)


\* HandleStreamingPost has returned: with a JSON error, or after the supervisor
RequestFinished == pc = "rejected" \/ (pc = "done" /\ bodyClosed)

(***************************************************************************)
(* C36, as claimed: when a streaming request has finished, whatever the    *)
(* supervisor returned, every upstream response body opened for it is      *)
(* closed: the initial one and that of every continuation answered 200.    *)
(***************************************************************************)
C36_AllBodiesClosed == RequestFinished => openBodies = {}


(***************************************************************************)
(* C37, as claimed: the supervisor returns nil only if every write to the  *)
(* client sink made in the session succeeded; a failed write, that of the  *)
(* tail flush of the punctuation heuristic included, makes the session end *)
(* with failure.                                                           *)
(***************************************************************************)
C37_NilOnlyIfWritesSucceeded == result = "nil" => ~writeFailed


\* the initial request failed on the network or was answered by another
\* status than 200
InitialRequestFailed == initialStatus \notin {NoStatus, StatusOK}

(***************************************************************************)
(* C38: the initial upstream request of a streaming request is made once.  *)
(* If it fails on the network or is answered by any status other than 200, *)
(* a status the supervisor would retry such as 500 or 503 included, the    *)
(* client receives a JSON error response (502 for the network error, the   *)
(* upstream status otherwise); the SSE stream is not started, no attempt   *)
(* of the supervisor begins, and no continuation request is made, then or  *)
(* later.                                                                  *)
(***************************************************************************)
C38_InitialRequestOnce ==
    /\ [](/\ initialStatus = NoStatus <=> upstreamRequests = 0
          /\ sseStarted => initialStatus = StatusOK)
    /\ [](InitialRequestFailed =>
            /\ pc = "rejected"
            /\ jsonError = (IF initialStatus = NetworkError THEN BadGatewayCode
                            ELSE initialStatus)
            /\ ~sseStarted
            /\ attemptsStarted = 0
            /\ upstreamRequests = 1
            /\ consecutiveRetryCount = 0
            /\ sink = <<>>
            /\ result = "")
    /\ [][initialStatus # NoStatus => initialStatus' = initialStatus]_vars
    /\ [][InitialRequestFailed => UNCHANGED vars]_vars

\* the initial request was answered 503, which a continuation would retry
C38_Witness ==
    /\ InitialRequestFailed
    /\ initialStatus = 503
    /\ jsonError = 503
    /\ cfg.MaxConsecutiveRetries >= 1


(***************************************************************************)
(* The rate limiter with its callers told apart and with progress.  The    *)
(* callers 1..MaxCallers use one key.  Time is measured from the present:  *)
(* now stays 0 and a tick moves every recorded instant one tick into the   *)
(* past, which leaves every comparison Wait makes as it is; an instant     *)
(* more than a window old is kept as window + 1 ticks old, Wait drops it   *)
(* whatever its age.  Time advances, and a caller that can take its next   *)
(* step takes it: the scheduler runs every goroutine, sync.Mutex hands the *)
(* lock to a goroutine that waits for it, time.Sleep returns.  New calls   *)
(* arrive or not.                                                          *)
(***************************************************************************)
Callers == 1..MaxCallers
SharedKey == "A"

NoCall == [pc |-> "idle", until |-> 0, made |-> FALSE]

InitLimiterFair ==
    /\ SessionIdle
    /\ InjectIdle
    /\ RewriteIdle
    /\ ProducersIdle
    /\ limit \in 1..MaxLimit
    /\ window \in 1..MaxWindow
    /\ now = 0
    /\ clients = [k \in Keys |-> <<>>]
    /\ mutex = "unlocked"
    /\ callers = EmptyBag
    /\ admitted = [k \in Keys |-> [t \in 0..MaxTime |-> 0]]
    /\ calls = [c \in Callers |-> NoCall]
    /\ recalls \in BOOLEAN

outsideCalls == <<sessionVars, injectVars, producerVars, rewriteVars, limit, window, now, mutex,
                  callers, admitted, recalls>>

\* proxy.go 355-370: caller c calls Wait; the call is its first, or it calls
\* again after a return
CallOf(c) ==
    /\ calls[c].pc = "idle"
    /\ recalls \/ ~calls[c].made
    /\ calls' = [calls EXCEPT ![c] = [pc |-> "lock", until |-> 0, made |-> TRUE]]
    /\ UNCHANGED <<outsideCalls, clients>>

\* lines 29-59, one pass of the loop of caller c with the mutex locked: the
\* call is recorded and returns, or the caller leaves to sleep until the
\* oldest timestamp is a window old
EnterOf(c) ==
    /\ calls[c].pc = "lock"
    /\ mutex = "unlocked"
    /\ LET cutoff == now - window
           timestamps == ValidTimestamps(clients[SharedKey], cutoff)
       IN IF UnderLimit(Len(timestamps), limit)
          THEN /\ clients' = [clients EXCEPT ![SharedKey] = Append(timestamps, now)]
               /\ calls' = [calls EXCEPT ![c] = [@ EXCEPT !.pc = "idle"]]
          ELSE /\ calls' = [calls EXCEPT ![c] =
                               [@ EXCEPT !.pc = "sleeping",
                                         !.until = timestamps[1] + window]]
               /\ UNCHANGED clients
    /\ UNCHANGED outsideCalls

\* lines 60-65: the sleep of caller c, if any, is over; its loop starts again
WakeOf(c) ==
    /\ calls[c].pc = "sleeping"
    /\ now >= calls[c].until
    /\ calls' = [calls EXCEPT ![c] = [@ EXCEPT !.pc = "lock", !.until = 0]]
    /\ UNCHANGED <<outsideCalls, clients>>

\* instant t, one tick later
OneTickAgo(t, oldest) == IF t - 1 < oldest THEN oldest ELSE t - 1

\* a tick of the clock
Elapse ==
    /\ clients' = [k \in Keys |-> [i \in DOMAIN clients[k] |->
                       OneTickAgo(clients[k][i], now - (window + 1))]]
    /\ calls' = [c \in Callers |->
                    [calls[c] EXCEPT !.until = OneTickAgo(@, now)]]
    /\ UNCHANGED outsideCalls

NextLimiterFair ==
    \/ \E c \in Callers : CallOf(c)
    \/ \E c \in Callers : EnterOf(c)
    \/ \E c \in Callers : WakeOf(c)
    \/ Elapse

SpecLimiterFair ==
    /\ InitLimiterFair
    /\ [][NextLimiterFair]_vars
    /\ WF_vars(Elapse)
    /\ \A c \in Callers : SF_vars(EnterOf(c)) /\ SF_vars(WakeOf(c))

\* caller c is inside Wait
InWait(c) == calls[c].pc # "idle"

(***************************************************************************)
(* C39, as claimed: with limit >= 1, a positive window, finitely many      *)
(* concurrent callers and time advancing, every call of Wait returns in    *)
(* the end under fair scheduling; no caller waits for ever while others    *)
(* take the slot that has come free.                                       *)
(***************************************************************************)
C39_EveryCallReturns ==
    \A c \in Callers : InWait(c) ~> ~InWait(c)


\* what holds: when no caller calls again, every call returns
EveryCallReturnsWithoutNewCalls ==
    \A c \in Callers : (~recalls /\ InWait(c)) ~> ~InWait(c)


\* the attempt in progress was started by the restart of the loop after a
\* continuation that failed softly
RestartedAfterSoftFail == lastStatus \notin {NoStatus, StatusOK}

(***************************************************************************)
(* C40, as claimed: a continuation that fails softly costs a retry and     *)
(* leaves the state of the stream as it is; resume_punct_streak is not     *)
(* lost by it, so that punctuation-ending resumed attempts before and      *)
(* after the failure add up to the streak of 3.                            *)
(***************************************************************************)
C40_SoftFailKeepsStreak ==
    [][RestartedAfterSoftFail => resumePunctStreak' >= resumePunctStreak]_vars

====
